---- MODULE Spec2Model ----
(***************************************************************************)
(* Weighted log-packet distributor (mihika12345b/log-distributor).         *)
(*                                                                         *)
(* The model follows src/distributor: the ingress handler and the queue    *)
(* workers of main.py, LogDistributor of distributor.py, HealthMonitor of  *)
(* health_monitor.py and the mock analyzer of src/analyzer/analyzer.py as  *)
(* the downstream side.  A coroutine is cut into steps at its awaits: the  *)
(* acquisition of the asyncio lock, the HTTP call, the backoff sleep and   *)
(* the queue get.  Weights are integers (the configured weights times      *)
(* ten), and a backoff delay is counted in units of RETRY_DELAY.           *)
(***************************************************************************)
EXTENDS Integers, Sequences, FiniteSets, TLC

(* ------------------------------ bounds --------------------------------- *)

\* number of ingest requests an execution makes
MaxIngest == 2
MaxBurst == 3
MaxContended == 1
\* number of ingest requests of the executions that follow one packet
\* through the retry loop, past the read endpoints and into the shutdown
MaxServed == 1
\* number of configured analyzers in the running service (a prefix of the
\* four of config.get_analyzers)
NumAnalyzers == 2
\* largest number of messages in one packet
MaxMessages == 2
\* largest MAX_QUEUE_SIZE the configuration is drawn from
MaxQueueSize == 2
\* largest MAX_RETRIES the configuration is drawn from
MaxRetriesBound == 1
\* NUM_WORKERS of the running service
NUM_WORKERS == 1
\* registry size and largest weight of the selector's input space
NumSelAnalyzers == 3
MaxWeight == 4
\* number of GET /stats and GET /health requests an execution makes
MaxReads == 1
\* largest MAX_RETRIES of the executions that follow the retry loop
MaxRetriesLoop == 2

(* ---------------------------- configuration ---------------------------- *)

AnalyzerNames ==
  <<"analyzer-1", "analyzer-2", "analyzer-3", "analyzer-4", "analyzer-5", "analyzer-6">>

\* config.get_analyzers: weights 0.4, 0.3, 0.2, 0.1, scaled by ten
ConfigWeights == <<4, 3, 2, 1, 0, 0>>

Analyzer(n, w, h) == [name |-> n, weight |-> w, is_healthy |-> h]

get_analyzers ==
  [i \in 1..NumAnalyzers |-> Analyzer(AnalyzerNames[i], ConfigWeights[i], TRUE)]

Workers == 1..NUM_WORKERS

\* value of the lock when no task holds it
Unlocked == 0

\* the value None of the code
None == "None"

NoPacket == [packet_id |-> 0, messages |-> 0]

\* no read request answered yet
NoView == [kind |-> "none"]

\* lifespan at its yield: queue and distributor built, both HTTP clients
\* open, the server answering requests
Ready ==
  [pc |-> "serving", queue |-> TRUE, distributor |-> TRUE, client |-> "open",
   health_client |-> "open"]

\* lifespan entered, nothing built yet
NotStarted ==
  [pc |-> "queue", queue |-> FALSE, distributor |-> FALSE, client |-> "none",
   health_client |-> "none"]

VARIABLES
  MAX_QUEUE_SIZE,  \* config.MAX_QUEUE_SIZE, read once at import
  MAX_RETRIES,     \* config.MAX_RETRIES
  analyzers,       \* LogDistributor.analyzers: the registry, in configured order
  stats,           \* LogDistributor.stats
  lock,            \* LogDistributor._lock: Unlocked or the worker holding it
  packet_queue,    \* main.packet_queue
  worker,          \* per queue_worker: position and locals of its distribute call
  monitor,         \* HealthMonitor._monitor_loop: position, gathered results
  ingested,        \* number of POST /ingest requests answered
  accepted,        \* number of them answered 202
  last_response,   \* status of the latest answer ("none" before the first)
  returned,        \* number of distribute calls that have returned
  posts_issued,    \* number of POSTs issued to the analyzers
  posts_to,        \* number of them per analyzer, by name
  selected,        \* last result of a selector call made on its own
  rand,            \* the draw of that call
  running,         \* main.running: set by lifespan before the workers start
  view,            \* body of the latest answer of GET /stats or GET /health
  reads,           \* number of GET /stats and GET /health requests begun
  probed,          \* outcomes of the probes of the latest round, when recorded
  lifespan         \* main.lifespan: its position, what it has built, the clients

vars == <<MAX_QUEUE_SIZE, MAX_RETRIES, analyzers, stats, lock, packet_queue,
          worker, monitor, ingested, accepted, last_response, returned,
          posts_issued, posts_to, selected, rand, running, view, reads, probed, lifespan>>

(* ------------------------- weighted selector --------------------------- *)

RECURSIVE SumWeights(_)
\* sum(a.weight for a in healthy_analyzers)
SumWeights(s) ==
  IF s = <<>> THEN 0 ELSE s[1].weight + SumWeights(Tail(s))

\* the filter left out: every configured analyzer counted as healthy
HealthyAnalyzers_Unfiltered(as) == as

IsHealthy(a) == a.is_healthy

\* [a for a in self.analyzers if a.is_healthy]
HealthyAnalyzers(as) == SelectSeq(as, IsHealthy)

RECURSIVE Walk_Inclusive(_, _, _, _)
\* the comparison written rand <= cumulative_weight
Walk_Inclusive(healthy, r, i, cumulative_weight) ==
  IF i > Len(healthy)
  THEN healthy[Len(healthy)].name
  ELSE LET c == cumulative_weight + healthy[i].weight
       IN IF r <= c THEN healthy[i].name
          ELSE Walk_Inclusive(healthy, r, i + 1, c)

RECURSIVE Walk(_, _, _, _)
\* the accumulation loop: the first analyzer whose cumulative weight
\* exceeds the draw, healthy_analyzers[-1] when the loop ends without one
Walk(healthy, r, i, cumulative_weight) ==
  IF i > Len(healthy)
  THEN healthy[Len(healthy)].name
  ELSE LET c == cumulative_weight + healthy[i].weight
       IN IF r < c THEN healthy[i].name ELSE Walk(healthy, r, i + 1, c)

\* the values of random.uniform(0, total_weight) below total_weight
UniformDraws(total_weight) == 0..(total_weight - 1)

\* all values the draw can take relative to the accumulated weights:
\* total_weight itself stands for a draw that floating point rounding
\* leaves at or above the last cumulative sum
Draws(total_weight) == UniformDraws(total_weight) \cup {total_weight}

\* the part of _select_analyzer after the filter, for a given draw
SelectFrom(healthy, r) ==
  IF healthy = <<>> THEN None
  ELSE IF SumWeights(healthy) = 0 THEN None
  ELSE Walk(healthy, r, 1, 0)

\* the draws open to _select_analyzer for a given healthy list (one dummy
\* draw when it returns before drawing)
DrawsFor(healthy) ==
  IF healthy = <<>> \/ SumWeights(healthy) = 0 THEN {0}
  ELSE Draws(SumWeights(healthy))

\* _select_analyzer as a function of the registry and the draw
SelectAnalyzer(as, r) == SelectFrom(HealthyAnalyzers(as), r)

(* ------------------------------ statistics ----------------------------- *)

ConfiguredNames(as) == {as[i].name : i \in 1..Len(as)}

\* DistributorStats() alone: the two maps empty
InitStats_Empty(as) ==
  [total_packets_received |-> 0,
   total_messages_received |-> 0,
   packets_per_analyzer |-> [n \in {} |-> 0],
   messages_per_analyzer |-> [n \in {} |-> 0],
   failed_sends |-> 0]

\* DistributorStats() followed by the per-analyzer initialisation of __init__
InitStats(as) ==
  [total_packets_received |-> 0,
   total_messages_received |-> 0,
   packets_per_analyzer |-> [n \in ConfiguredNames(as) |-> 0],
   messages_per_analyzer |-> [n \in ConfiguredNames(as) |-> 0],
   failed_sends |-> 0]

\* the success update without the per-analyzer packet counter
RecordSuccessStats_TotalOnly(s, name, packet) ==
  [s EXCEPT !.total_packets_received = @ + 1,
            !.total_messages_received = @ + packet.messages,
            !.messages_per_analyzer[name] = @ + packet.messages]

\* the message counters assigned (=) where the code adds (+=)
RecordSuccessStats_Assigned(s, name, packet) ==
  [s EXCEPT !.total_packets_received = @ + 1,
            !.total_messages_received = packet.messages,
            !.packets_per_analyzer[name] = @ + 1,
            !.messages_per_analyzer[name] = packet.messages]

\* a success credited to the first configured analyzer, whoever answered
RecordSuccessStats_Miscredited(s, name, packet) ==
  [s EXCEPT !.total_packets_received = @ + 1,
            !.total_messages_received = @ + packet.messages,
            !.packets_per_analyzer[AnalyzerNames[1]] = @ + 1,
            !.messages_per_analyzer[AnalyzerNames[1]] = @ + packet.messages]

\* the success update of distribute
\* a success that counts one message per packet for the analyzer
RecordSuccessStats_OneMessage(s, name, packet) ==
  [s EXCEPT !.total_packets_received = @ + 1,
            !.total_messages_received = @ + packet.messages,
            !.packets_per_analyzer[name] = @ + 1,
            !.messages_per_analyzer[name] = @ + 1]

RecordSuccessStats(s, name, packet) ==
  [s EXCEPT !.total_packets_received = @ + 1,
            !.total_messages_received = @ + packet.messages,
            !.packets_per_analyzer[name] = @ + 1,
            !.messages_per_analyzer[name] = @ + packet.messages]

\* a failure path that returns without counting
RecordFailureStats_Forgotten(s) == s

\* a failure that is also counted among the packets received
RecordFailureStats_CountedAsReceived(s) ==
  [s EXCEPT !.failed_sends = @ + 1, !.total_packets_received = @ + 1]

\* self.stats.failed_sends += 1
RecordFailureStats(s) == [s EXCEPT !.failed_sends = @ + 1]

(* ------------------------------- registry ------------------------------ *)

\* an update that writes the flag of every analyzer
UpdateAnalyzerHealth_AllFlags(as, analyzer_name, is_healthy) ==
  [i \in 1..Len(as) |-> [as[i] EXCEPT !.is_healthy = is_healthy]]

\* an update that leaves the registry as it is
UpdateAnalyzerHealth_Dropped(as, analyzer_name, is_healthy) == as

\* an update that turns the flag over when the analyzer is reported
\* unhealthy, instead of writing the value
UpdateAnalyzerHealth_Flipped(as, analyzer_name, is_healthy) ==
  [i \in 1..Len(as) |->
     IF as[i].name = analyzer_name /\ ~is_healthy
     THEN [as[i] EXCEPT !.is_healthy = ~as[i].is_healthy]
     ELSE IF as[i].name = analyzer_name
     THEN [as[i] EXCEPT !.is_healthy = TRUE]
     ELSE as[i]]

\* update_analyzer_health inside its lock: the first analyzer with that
\* name gets the flag, an unknown name changes nothing
UpdateAnalyzerHealth(as, analyzer_name, is_healthy) ==
  IF \E i \in 1..Len(as) : as[i].name = analyzer_name
  THEN LET i == CHOOSE j \in 1..Len(as) :
                  /\ as[j].name = analyzer_name
                  /\ \A k \in 1..(j - 1) : as[k].name # analyzer_name
       IN [as EXCEPT ![i].is_healthy = is_healthy]
  ELSE as

\* update_analyzer_health writing the flag without the lock
HealthLockFree_Ignored == TRUE

\* async with self._lock, as update_analyzer_health enters it
HealthLockFree == lock = Unlocked

\* async with self._lock, as _select_analyzer enters it
SelectLockFree == lock = Unlocked

\* async with self._lock, as the statistics updates of distribute enter it
StatsLockFree == lock = Unlocked

(* -------------------------------- ingress ------------------------------ *)

\* bodies POST /ingest can receive: lengths of the two identifiers, number
\* of messages, and whether every message passes LogMessage's validation;
\* the well-formed bodies and those with one defect
RequestFields ==
  [packet_id_len : 0..1, agent_id_len : 0..1, messages : 0..MaxMessages,
   messages_valid : BOOLEAN]

Defects(req) ==
  (IF req.packet_id_len = 0 THEN 1 ELSE 0) + (IF req.agent_id_len = 0 THEN 1 ELSE 0)
  + (IF req.messages = 0 THEN 1 ELSE 0) + (IF req.messages_valid THEN 0 ELSE 1)

Requests == {req \in RequestFields : Defects(req) <= 1}

\* a validation that lets an empty list of messages through
ValidPacket_EmptyAllowed(req) ==
  /\ req.packet_id_len >= 1
  /\ req.agent_id_len >= 1
  /\ req.messages_valid

\* validation of LogPacket by pydantic: min_length = 1, min_items = 1, and
\* each message a valid LogMessage
ValidPacket(req) ==
  /\ req.packet_id_len >= 1
  /\ req.agent_id_len >= 1
  /\ req.messages >= 1
  /\ req.messages_valid

\* the LogPacket built from a request body: its fields, and the rank of the
\* request as its identity
Packet(n, req) ==
  [packet_id |-> n, messages |-> req.messages,
   packet_id_len |-> req.packet_id_len, agent_id_len |-> req.agent_id_len,
   messages_valid |-> req.messages_valid]

\* a queue that lets one packet more in
QueueFull_OffByOne(q) ==
  IF MAX_QUEUE_SIZE <= 0 THEN FALSE ELSE Len(q) > MAX_QUEUE_SIZE

\* a queue that refuses nothing
QueueFull_Unbounded(q) == FALSE

\* asyncio.Queue.full(): a queue built with maxsize <= 0 is never full
QueueFull(q) ==
  IF MAX_QUEUE_SIZE <= 0 THEN FALSE ELSE Len(q) >= MAX_QUEUE_SIZE

\* the server hands requests to the application between the two halves of
\* lifespan
Serving == running /\ lifespan.pc = "serving"

\* ingest_log_packet: put_nowait, 202 when it succeeds, 503 on QueueFull;
\* FastAPI answers 422 before the handler runs when validation fails.  The
\* server hands requests to the application between the two halves of
\* lifespan only, that is while running is set
IngestWithin(limit, req) ==
  /\ Serving
  /\ ingested < limit
  /\ ingested' = ingested + 1
  /\ IF ~ValidPacket(req)
     THEN /\ last_response' = "422"
          /\ UNCHANGED <<packet_queue, accepted>>
     ELSE IF QueueFull(packet_queue)
     THEN /\ last_response' = "503"
          /\ UNCHANGED <<packet_queue, accepted>>
     ELSE /\ packet_queue' =
               Append(packet_queue,
                      Packet(ingested + 1, req))
          /\ last_response' = "202"
          /\ accepted' = accepted + 1
  /\ UNCHANGED <<running, view, reads, MAX_QUEUE_SIZE, MAX_RETRIES, analyzers, stats, lock, worker,
                 monitor, returned, posts_issued, posts_to, selected, rand, probed, lifespan>>

ingest_log_packet(req) == IngestWithin(MaxIngest, req)

(* -------------------------------- workers ------------------------------ *)

InitWorker ==
  [pc |-> "take", packet |-> NoPacket, attempt |-> 0, analyzer |-> None,
   healthy_analyzers |-> <<>>, last |-> "none", acked |-> FALSE, posts |-> 0,
   slept |-> 0, processed |-> 0, success |-> FALSE]

\* what one POST to an analyzer can end in: a response with a status of one
\* of four classes (raise_for_status raises HTTPStatusError for every status
\* outside 2xx), or an exception out of the client
SendOutcomes == {"2xx", "3xx", "4xx", "5xx", "timeout", "connect", "error"}

\* whether the analyzer has received and counted the packet (analyze_logs)
\* when the distributor sees that outcome: a timeout or a broken transfer
\* can follow the analyzer's processing as well as precede it
ProcessedBy(outcome) ==
  CASE outcome = "2xx" -> {TRUE}
    [] outcome \in {"timeout", "error"} -> BOOLEAN
    [] OTHER -> {FALSE}

\* a 2xx that is not taken as success
Classify_SuccessIgnored(outcome) ==
  CASE outcome = "4xx" -> "drop"
    [] OTHER -> "retry"

\* a 4xx handled like a 5xx
Classify_ClientErrorRetried(outcome) ==
  CASE outcome = "2xx" -> "success"
    [] OTHER -> "retry"

\* the branches of the try statement in distribute
Classify(outcome) ==
  CASE outcome = "2xx" -> "success"
    [] outcome = "4xx" -> "drop"
    [] OTHER -> "retry"

\* a loop that gives up one attempt early
RetryAllowed_OneFewer(attempt) == attempt + 1 < MAX_RETRIES

\* a loop that goes round once more than range(max_retries + 1)
RetryAllowed_OneMore(attempt) == attempt <= MAX_RETRIES

\* attempt < max_retries: the branch that sleeps and continues
RetryAllowed(attempt) == attempt < MAX_RETRIES

RECURSIVE Pow2(_)
Pow2(n) == IF n = 0 THEN 1 ELSE 2 * Pow2(n - 1)

\* a delay that does not grow: retry_delay before every retry
BackoffDelay_Constant(attempt) == Pow2(0)

\* delay = retry_delay * (2 ** attempt), in units of retry_delay
BackoffDelay(attempt) == Pow2(attempt)

\* the None check left out
AfterSelect_AlwaysSend(a) == "post"

\* a worker that selects again for as long as no analyzer is available
AfterSelect_Reselect(a) == IF a = None THEN "select" ELSE "post"

\* if not analyzer: count the failure and return; otherwise send
AfterSelect(a) == IF a = None THEN "record_failure" ELSE "post"

\* what the distributor observed of an attempt: the status class of the
\* response, or "transient" for a 5xx, a timeout or any exception
Observed(outcome) ==
  IF outcome \in {"2xx", "4xx"} THEN outcome ELSE "transient"

\* an unexpected exception of the client that leaves distribute and the
\* worker's loop with it
AfterSend_ErrorEscapes(outcome, attempt) ==
  CASE outcome = "error" -> "stopped"
    [] Classify(outcome) = "success" -> "record_success"
    [] Classify(outcome) = "drop" -> "record_failure"
    [] Classify(outcome) = "retry" /\ RetryAllowed(attempt) -> "sleep"
    [] OTHER -> "record_failure"

\* the statement distribute goes to after an attempt's outcome
AfterSend(outcome, attempt) ==
  CASE Classify(outcome) = "success" -> "record_success"
    [] Classify(outcome) = "drop" -> "record_failure"
    [] Classify(outcome) = "retry" /\ RetryAllowed(attempt) -> "sleep"
    [] OTHER -> "record_failure"

\* a retry that goes back to the analyzer of the attempt before
AttemptTarget_Sticky(previous, healthy, r) ==
  IF previous # None THEN previous ELSE SelectFrom(healthy, r)

\* analyzer = await self._select_analyzer() at the head of every pass of the
\* loop: the target is what the selector returns, the target of the pass
\* before (previous) is not looked at
AttemptTarget(previous, healthy, r) == SelectFrom(healthy, r)

\* a get that hands out the packet put last
QueueGet_Newest(q) ==
  [item |-> q[Len(q)], rest |-> SubSeq(q, 1, Len(q) - 1)]

\* packet_queue.get() on a queue that is not empty: asyncio.Queue hands out
\* the packet put first and keeps the others in their order
QueueGet(q) == [item |-> Head(q), rest |-> Tail(q)]

\* queue_worker: packet_queue.get() returns, distribute is entered
Take(w) ==
  /\ worker[w].pc = "take"
  /\ packet_queue # <<>>
  /\ packet_queue' = QueueGet(packet_queue).rest
  /\ worker' = [worker EXCEPT ![w] =
                  [InitWorker EXCEPT !.pc = "select",
                                     !.packet = QueueGet(packet_queue).item]]
  /\ UNCHANGED <<running, view, reads, MAX_QUEUE_SIZE, MAX_RETRIES, analyzers, stats, lock, monitor,
                 ingested, accepted, last_response, returned, posts_issued, posts_to, selected, rand, probed, lifespan>>

\* a selector that returns without leaving its async with: the worker keeps
\* the lock while it sends
LockAfterSelect_Kept(w) == w

\* the end of async with self._lock in _select_analyzer, reached by each of
\* its return statements: the lock is released
LockAfterSelect(w) == Unlocked

\* _select_analyzer, first half: take the lock, filter the healthy analyzers
SelectEnter(w) ==
  /\ worker[w].pc = "select"
  /\ SelectLockFree
  /\ lock' = w
  /\ worker' = [worker EXCEPT ![w].pc = "draw",
                              ![w].healthy_analyzers = HealthyAnalyzers(analyzers)]
  /\ UNCHANGED <<running, view, reads, MAX_QUEUE_SIZE, MAX_RETRIES, analyzers, stats, packet_queue,
                 monitor, ingested, accepted, last_response, returned, posts_issued, posts_to, selected, rand, probed, lifespan>>

\* _select_analyzer, second half: sum, draw, walk, release the lock; then
\* distribute either goes to count the failure (None) or issues the POST
SelectDraw(w, r) ==
  /\ worker[w].pc = "draw"
  /\ r \in DrawsFor(worker[w].healthy_analyzers)
  /\ lock' = LockAfterSelect(w)
  /\ LET a == AttemptTarget(worker[w].analyzer, worker[w].healthy_analyzers, r)
         next == AfterSelect(a)
     IN /\ worker' = [worker EXCEPT
               ![w].pc = next,
               ![w].analyzer = a,
               ![w].healthy_analyzers = <<>>,
               ![w].last = IF a = None THEN "no_analyzer" ELSE "none",
               ![w].posts = IF next = "post" THEN @ + 1 ELSE @]
        /\ posts_issued' = IF next = "post" THEN posts_issued + 1 ELSE posts_issued
        /\ posts_to' = IF next = "post" THEN [posts_to EXCEPT ![a] = @ + 1] ELSE posts_to
  /\ UNCHANGED <<running, view, reads, MAX_QUEUE_SIZE, MAX_RETRIES, analyzers, stats, packet_queue,
                 monitor, ingested, accepted, last_response, returned, selected,
                 rand, probed, lifespan>>

\* _send_to_analyzer returns or raises, and distribute takes the branch of
\* the outcome: on to the success update, to the failure count, into the
\* backoff sleep, or out of the loop after the last attempt
Response(w, outcome, processed) ==
  /\ worker[w].pc = "post"
  /\ processed \in ProcessedBy(outcome)
  /\ LET next == AfterSend(outcome, worker[w].attempt)
     IN worker' = [worker EXCEPT
          ![w].pc = next,
          ![w].last = Observed(outcome),
          ![w].acked = (outcome = "2xx"),
          ![w].processed = IF processed THEN @ + 1 ELSE @,
          ![w].slept = IF next = "sleep" THEN @ + BackoffDelay(worker[w].attempt)
                       ELSE @]
  /\ UNCHANGED <<running, view, reads, MAX_QUEUE_SIZE, MAX_RETRIES, analyzers, stats, lock,
                 packet_queue, monitor, ingested, accepted, last_response,
                 returned, posts_issued, posts_to, selected, rand, probed, lifespan>>

\* asyncio.sleep(delay) ends; continue with the next attempt
Wake(w) ==
  /\ worker[w].pc = "sleep"
  /\ worker' = [worker EXCEPT ![w].pc = "select", ![w].attempt = @ + 1,
                              ![w].last = "none"]
  /\ UNCHANGED <<running, view, reads, MAX_QUEUE_SIZE, MAX_RETRIES, analyzers, stats, lock,
                 packet_queue, monitor, ingested, accepted, last_response, returned, posts_issued, posts_to,
                 selected, rand, probed, lifespan>>

\* the success update under the lock, return True
RecordSuccess(w) ==
  /\ worker[w].pc = "record_success"
  /\ StatsLockFree
  /\ stats' = RecordSuccessStats(stats, worker[w].analyzer, worker[w].packet)
  /\ returned' = returned + 1
  /\ worker' = [worker EXCEPT ![w].pc = "returned", ![w].success = TRUE]
  /\ UNCHANGED <<running, view, reads, MAX_QUEUE_SIZE, MAX_RETRIES, analyzers, lock, packet_queue,
                 monitor, ingested, accepted, last_response, posts_issued, posts_to, selected, rand, probed, lifespan>>

\* failed_sends += 1 under the lock, return False: after None from the
\* selector, after a 4xx, and after the loop
RecordFailure(w) ==
  /\ worker[w].pc = "record_failure"
  /\ StatsLockFree
  /\ stats' = RecordFailureStats(stats)
  /\ returned' = returned + 1
  /\ worker' = [worker EXCEPT ![w].pc = "returned", ![w].success = FALSE]
  /\ UNCHANGED <<running, view, reads, MAX_QUEUE_SIZE, MAX_RETRIES, analyzers, lock, packet_queue,
                 monitor, ingested, accepted, last_response, posts_issued, posts_to, selected, rand, probed, lifespan>>

\* queue_worker after distribute: task_done, back to the get
TaskDone(w) ==
  /\ worker[w].pc = "returned"
  /\ worker' = [worker EXCEPT ![w] = InitWorker]
  /\ UNCHANGED <<running, view, reads, MAX_QUEUE_SIZE, MAX_RETRIES, analyzers, stats, lock,
                 packet_queue, monitor, ingested, accepted, last_response, returned, posts_issued, posts_to,
                 selected, rand, probed, lifespan>>

(* ----------------------------- health monitor -------------------------- *)

\* what one GET of a health URL can end in: a response with that status, a
\* timeout, a connect error, another exception caught by the probe ("error"),
\* or an exception that gather hands back as the result ("raised")
ProbeOutcomes == {"200", "204", "500", "timeout", "connect", "error", "raised"}

\* a probe that takes every 2xx status as healthy
ProbeHealthy_AnySuccess(outcome) == outcome \in {"200", "204"}

\* _check_analyzer_health, and the isinstance branch of _check_all_analyzers
ProbeHealthy(outcome) == outcome = "200"

\* the monitor once started: _running set and one _monitor_loop task at the
\* top of its loop; loops counts the _monitor_loop tasks alive
InitMonitor == [pc |-> "check", results |-> <<>>, idx |-> 0, loops |-> 1]

\* HealthMonitor.__init__: _running = False, _task = None
NewMonitor == [InitMonitor EXCEPT !.pc = "unstarted", !.loops = 0]

\* HealthMonitor._running
MonitorRunning(m) == m.pc \notin {"unstarted", "stopped"}

\* a start that creates a task whatever _running says
HealthMonitorStart_Unguarded(m) == [InitMonitor EXCEPT !.loops = m.loops + 1]

\* HealthMonitor.start: nothing if already running, else _running is set
\* and a _monitor_loop task created
HealthMonitorStart(m) ==
  IF MonitorRunning(m) THEN m ELSE [InitMonitor EXCEPT !.loops = m.loops + 1]

\* HealthMonitor.stop: nothing if not running, else _running is cleared and
\* the task cancelled and awaited; the cancelled loop takes no other step
\* than leaving, wherever it was
HealthMonitorStop(m) ==
  IF MonitorRunning(m) THEN [m EXCEPT !.pc = "stopped", !.loops = 0] ELSE m

\* a gather that, when one probe raises or times out, gives the whole round
\* up: every analyzer of the round is then reported unhealthy
GatherResults_SiblingsCancelled(outcomes) ==
  [i \in DOMAIN outcomes |->
     /\ ProbeHealthy(outcomes[i])
     /\ \A j \in DOMAIN outcomes : outcomes[j] \notin {"raised", "timeout"}]

\* asyncio.gather(*tasks, return_exceptions=True) and the isinstance test on
\* each result: one classification per analyzer, in the registry's order
GatherResults(outcomes) ==
  [i \in DOMAIN outcomes |-> ProbeHealthy(outcomes[i])]

\* _check_all_analyzers up to the end of gather: one probe per analyzer,
\* each classified; with record set, the outcomes are kept beside the
\* results
ProbeRound(outcomes, record) ==
  /\ monitor.pc = "check"
  /\ outcomes \in [1..Len(analyzers) -> ProbeOutcomes]
  /\ monitor' = IF Len(analyzers) = 0
                THEN [InitMonitor EXCEPT !.pc = "sleep"]
                ELSE [monitor EXCEPT !.pc = "apply",
                                     !.results = GatherResults(outcomes),
                                     !.idx = 1]
  /\ probed' = IF record THEN outcomes ELSE probed
  /\ UNCHANGED <<running, view, reads, MAX_QUEUE_SIZE, MAX_RETRIES, analyzers, stats, lock,
                 packet_queue, worker, ingested, accepted, last_response, returned, posts_issued, posts_to,
                 selected, rand, lifespan>>

CheckAll(outcomes) == ProbeRound(outcomes, FALSE)

\* the same round, its outcomes recorded
CheckAllRecorded(outcomes) == ProbeRound(outcomes, TRUE)

\* one pass of the loop over zip(analyzers, results): update_analyzer_health
ApplyResult ==
  /\ monitor.pc = "apply"
  /\ HealthLockFree
  /\ analyzers' = UpdateAnalyzerHealth(analyzers, analyzers[monitor.idx].name,
                                       monitor.results[monitor.idx])
  /\ monitor' = IF monitor.idx = Len(analyzers)
                THEN [InitMonitor EXCEPT !.pc = "sleep"]
                ELSE [monitor EXCEPT !.idx = @ + 1]
  /\ UNCHANGED <<running, view, reads, MAX_QUEUE_SIZE, MAX_RETRIES, stats, lock, packet_queue, worker,
                 ingested, accepted, last_response, returned, posts_issued, posts_to, selected, rand, probed, lifespan>>

\* asyncio.sleep(check_interval) ends
MonitorWake ==
  /\ monitor.pc = "sleep"
  /\ monitor' = [monitor EXCEPT !.pc = "check"]
  /\ UNCHANGED <<running, view, reads, MAX_QUEUE_SIZE, MAX_RETRIES, analyzers, stats, lock,
                 packet_queue, worker, ingested, accepted, last_response, returned, posts_issued, posts_to,
                 selected, rand, probed, lifespan>>

\* the except Exception branch of _monitor_loop: an error raised inside a
\* round (by the program's environment, e.g. MemoryError: the round's own
\* statements catch what the probes raise) is logged, the round is given up
\* and the loop sleeps check_interval before the next one
RoundFails ==
  /\ monitor.pc \in {"check", "apply"}
  /\ monitor' = [InitMonitor EXCEPT !.pc = "sleep"]
  /\ UNCHANGED <<running, view, reads, MAX_QUEUE_SIZE, MAX_RETRIES, analyzers, stats, lock,
                 packet_queue, worker, ingested, accepted, last_response, returned, posts_issued, posts_to,
                 selected, rand, probed, lifespan>>

(* ----------------------------- read handlers --------------------------- *)

\* async with self._lock, as get_stats and get_healthy_analyzers enter it
ReadLockFree == lock = Unlocked

\* self.stats.model_copy(deep=True)
StatsCopy(s) ==
  [total_packets_received |-> s.total_packets_received,
   total_messages_received |-> s.total_messages_received,
   packets_per_analyzer |-> [n \in DOMAIN s.packets_per_analyzer |-> s.packets_per_analyzer[n]],
   messages_per_analyzer |-> [n \in DOMAIN s.messages_per_analyzer |-> s.messages_per_analyzer[n]],
   failed_sends |-> s.failed_sends]

\* model_copy() without deep=True: the copy holds the two dictionaries of
\* the ledger themselves
CopyShares_Shallow == {"packets_per_analyzer", "messages_per_analyzer"}

\* the fields of the copy that are the ledger's own objects: none, the copy
\* being made with deep=True
CopyShares == {}

\* GET /stats: distributor.get_stats()
get_stats ==
  /\ Serving
  /\ reads < MaxReads
  /\ ReadLockFree
  /\ view' = [kind |-> "stats", stats |-> StatsCopy(stats), shares |-> CopyShares]
  /\ reads' = reads + 1
  /\ UNCHANGED <<MAX_QUEUE_SIZE, MAX_RETRIES, analyzers, stats, lock,
                 packet_queue, worker, monitor, ingested, accepted,
                 last_response, returned, posts_issued, posts_to, selected, rand, running, probed, lifespan>>

\* GET /health: get_stats, get_healthy_analyzers, qsize and the response,
\* with no suspension in between (neither lock is contended when the
\* handler runs); the division by MAX_QUEUE_SIZE raises when it is 0, and
\* the answer is then 500.  Of the answer the status is kept
health_check ==
  /\ Serving
  /\ reads < MaxReads
  /\ ReadLockFree
  /\ view' = [kind |-> "health",
              status |-> IF MAX_QUEUE_SIZE = 0 THEN 500 ELSE 200]
  /\ reads' = reads + 1
  /\ UNCHANGED <<MAX_QUEUE_SIZE, MAX_RETRIES, analyzers, stats, lock,
                 packet_queue, worker, monitor, ingested, accepted,
                 last_response, returned, posts_issued, posts_to, selected, rand, running, probed, lifespan>>

(* -------------------------------- startup ------------------------------ *)

\* the startup statements with the workers created before the client is
\* opened and the monitor started
StartupOrder_WorkersEarly ==
  <<"queue", "distributor", "workers", "initialize", "monitor", "serve">>

\* the statements of lifespan before its yield, in the order of the code
StartupOrder ==
  <<"queue", "distributor", "initialize", "monitor", "workers", "serve">>

\* the position after the statement named step
StartupNext(step) ==
  LET i == CHOOSE j \in 1..Len(StartupOrder) : StartupOrder[j] = step
  IN IF i = Len(StartupOrder) THEN "serving" ELSE StartupOrder[i + 1]

StartupFrame ==
  UNCHANGED <<MAX_QUEUE_SIZE, MAX_RETRIES, analyzers, stats, lock, packet_queue,
              ingested, accepted, last_response, returned, posts_issued, posts_to,
              selected, rand, view, reads, probed>>

\* packet_queue = asyncio.Queue(maxsize=MAX_QUEUE_SIZE)
BuildQueue ==
  /\ lifespan.pc = "queue"
  /\ lifespan' = [lifespan EXCEPT !.pc = StartupNext("queue"), !.queue = TRUE]
  /\ UNCHANGED <<worker, monitor, running>>
  /\ StartupFrame

\* distributor = LogDistributor(analyzers=ANALYZERS, ...): the registry (the
\* list built at import), the lock and the statistics
BuildDistributor ==
  /\ lifespan.pc = "distributor"
  /\ lifespan' = [lifespan EXCEPT !.pc = StartupNext("distributor"),
                                  !.distributor = TRUE]
  /\ UNCHANGED <<worker, monitor, running>>
  /\ StartupFrame

\* await distributor.initialize(): the data-path client
InitializeClient ==
  /\ lifespan.pc = "initialize"
  /\ lifespan' = [lifespan EXCEPT !.pc = StartupNext("initialize"),
                                  !.client = "open"]
  /\ UNCHANGED <<worker, monitor, running>>
  /\ StartupFrame

\* HealthMonitor(...), whose __init__ opens the health client, and
\* await health_monitor.start(): _running set, the loop task created
StartMonitor ==
  /\ lifespan.pc = "monitor"
  /\ lifespan' = [lifespan EXCEPT !.pc = StartupNext("monitor"),
                                  !.health_client = "open"]
  /\ monitor' = HealthMonitorStart(monitor)
  /\ UNCHANGED <<worker, running>>
  /\ StartupFrame

\* running = True and the NUM_WORKERS tasks created
StartWorkers ==
  /\ lifespan.pc = "workers"
  /\ lifespan' = [lifespan EXCEPT !.pc = StartupNext("workers")]
  /\ running' = TRUE
  /\ worker' = [w \in Workers |-> InitWorker]
  /\ UNCHANGED monitor
  /\ StartupFrame

\* the yield: the server starts to answer requests
Serve ==
  /\ lifespan.pc = "serve"
  /\ lifespan' = [lifespan EXCEPT !.pc = StartupNext("serve")]
  /\ UNCHANGED <<worker, monitor, running>>
  /\ StartupFrame

(* -------------------------------- shutdown ----------------------------- *)

\* a CancelledError caught like any other exception of an attempt: the
\* worker goes on where it was
Cancelled_Swallowed(wk) == wk

\* a queue_worker after CancelledError reached it: distribute is unwound
\* without another statement of it running, the loop is left and the task
\* ends, its packet with it
Cancelled(wk) == [InitWorker EXCEPT !.pc = "stopped"]

\* lifespan after the yield, up to the end of gather: running = False, every
\* worker task cancelled at the await it is in; a lock held by a cancelled
\* task is released by its async with.  The server has answered the requests
\* in flight before it runs this
Shutdown ==
  /\ running
  /\ lifespan.pc = "serving"
  /\ running' = FALSE
  /\ lifespan' = [lifespan EXCEPT !.pc = "stop_monitor"]
  /\ worker' = [w \in Workers |-> Cancelled(worker[w])]
  /\ lock' = Unlocked
  /\ UNCHANGED <<MAX_QUEUE_SIZE, MAX_RETRIES, analyzers, stats, packet_queue,
                 monitor, ingested, accepted, last_response, returned,
                 posts_issued, posts_to, selected, rand, view, reads, probed>>

\* health_monitor.stop(): the loop task cancelled and awaited, the client
\* closed; distributor.close() follows and lifespan returns
StopMonitor ==
  /\ ~running
  /\ lifespan.pc = "stop_monitor"
  /\ monitor.pc # "stopped"
  /\ monitor' = HealthMonitorStop(monitor)
  /\ lifespan' = [lifespan EXCEPT !.pc = "close", !.health_client = "closed"]
  /\ UNCHANGED <<MAX_QUEUE_SIZE, MAX_RETRIES, analyzers, stats, lock,
                 packet_queue, worker, ingested, accepted, last_response,
                 returned, posts_issued, posts_to, selected, rand, running, view, reads, probed>>

\* distributor.close(): the data-path client closed; lifespan returns
CloseDistributor ==
  /\ lifespan.pc = "close"
  /\ lifespan' = [lifespan EXCEPT !.pc = "done",
                                  !.client = IF @ = "open" THEN "closed" ELSE @]
  /\ UNCHANGED <<MAX_QUEUE_SIZE, MAX_RETRIES, analyzers, stats, lock,
                 packet_queue, worker, monitor, ingested, accepted, last_response,
                 returned, posts_issued, posts_to, selected, rand, running, view, reads, probed>>

\* lifespan has returned
ShutdownComplete == ~running /\ monitor.pc = "stopped"

(* ----------------------------- specifications -------------------------- *)

\* lifespan up to the yield, for a given registry and given ranges of the
\* queue bound and of the retry count
InitConfigured(registry, sizes, retries) ==
  /\ MAX_QUEUE_SIZE \in sizes
  /\ MAX_RETRIES \in retries
  /\ analyzers = registry
  /\ stats = InitStats(registry)
  /\ lock = Unlocked
  /\ packet_queue = <<>>
  /\ worker = [w \in Workers |-> InitWorker]
  /\ monitor = InitMonitor
  /\ ingested = 0
  /\ accepted = 0
  /\ last_response = "none"
  /\ returned = 0
  /\ posts_issued = 0
  /\ posts_to = [n \in ConfiguredNames(registry) |-> 0]
  /\ selected = "unset"
  /\ rand = 0
  /\ running = TRUE
  /\ view = NoView
  /\ reads = 0
  /\ probed = <<>>
  /\ lifespan = Ready

InitWith(registry, sizes) == InitConfigured(registry, sizes, 0..MaxRetriesBound)

Init == InitWith(get_analyzers, 1..MaxQueueSize)

Next ==
  \/ \E req \in Requests : ingest_log_packet(req)
  \/ \E w \in Workers : Take(w)
  \/ \E w \in Workers : SelectEnter(w)
  \/ \E w \in Workers : \E r \in DrawsFor(worker[w].healthy_analyzers) : SelectDraw(w, r)
  \/ \E w \in Workers : \E o \in SendOutcomes : \E p \in BOOLEAN : Response(w, o, p)
  \/ \E w \in Workers : Wake(w)
  \/ \E w \in Workers : RecordSuccess(w)
  \/ \E w \in Workers : RecordFailure(w)
  \/ \E w \in Workers : TaskDone(w)
  \/ \E o \in [1..Len(analyzers) -> ProbeOutcomes] : CheckAll(o)
  \/ ApplyResult
  \/ MonitorWake

\* the service with a queue bound of at least one
Spec == Init /\ [][Next]_vars

\* the scheduling of the event loop: a task that can take its next step
\* takes it (an HTTP call returns or times out, a sleep ends, a free lock is
\* given to the task that asks for it)
WorkerFairness(w) ==
  /\ WF_vars(Take(w))
  /\ WF_vars(SelectEnter(w))
  /\ WF_vars(\E r \in DrawsFor(worker[w].healthy_analyzers) : SelectDraw(w, r))
  /\ WF_vars(\E o \in SendOutcomes : \E p \in BOOLEAN : Response(w, o, p))
  /\ WF_vars(Wake(w))
  /\ WF_vars(RecordSuccess(w))
  /\ WF_vars(RecordFailure(w))
  /\ WF_vars(TaskDone(w))

MonitorFairness ==
  /\ WF_vars(\E o \in [1..Len(analyzers) -> ProbeOutcomes] : CheckAll(o))
  /\ WF_vars(ApplyResult)
  /\ WF_vars(MonitorWake)

Fairness == MonitorFairness /\ \A w \in Workers : WorkerFairness(w)

\* the running service under that scheduling
SpecFair == Init /\ [][Next]_vars /\ Fairness

\* the health monitor alone, the outcomes of its probes recorded
NextProbe ==
  \/ \E o \in [1..Len(analyzers) -> ProbeOutcomes] : CheckAllRecorded(o)
  \/ ApplyResult
  \/ MonitorWake

SpecProbe == Init /\ [][NextProbe]_vars

\* the health monitor from its start to its stop, with rounds that fail
NextMonitor ==
  \/ \E o \in [1..Len(analyzers) -> ProbeOutcomes] : CheckAllRecorded(o)
  \/ ApplyResult
  \/ MonitorWake
  \/ RoundFails
  \/ Shutdown
  \/ StopMonitor

SpecMonitor == Init /\ [][NextMonitor]_vars

\* the service from the entry of lifespan to its return
InitLifecycle ==
  /\ MAX_QUEUE_SIZE = 1
  /\ MAX_RETRIES \in 0..MaxRetriesBound
  /\ analyzers = get_analyzers
  /\ stats = InitStats(get_analyzers)
  /\ lock = Unlocked
  /\ packet_queue = <<>>
  /\ worker = [w \in Workers |-> [InitWorker EXCEPT !.pc = "unstarted"]]
  /\ monitor = NewMonitor
  /\ ingested = 0
  /\ accepted = 0
  /\ last_response = "none"
  /\ returned = 0
  /\ posts_issued = 0
  /\ posts_to = [n \in ConfiguredNames(get_analyzers) |-> 0]
  /\ selected = "unset"
  /\ rand = 0
  /\ running = FALSE
  /\ view = NoView
  /\ reads = 0
  /\ probed = <<>>
  /\ lifespan = NotStarted

NextLifecycle ==
  \/ BuildQueue
  \/ BuildDistributor
  \/ InitializeClient
  \/ StartMonitor
  \/ StartWorkers
  \/ Serve
  \/ Next
  \/ Shutdown
  \/ StopMonitor
  \/ CloseDistributor

SpecLifecycle == InitLifecycle /\ [][NextLifecycle]_vars

\* lifespan is resumed after each of its awaits: the gather over the
\* cancelled workers returns, stop() returns once the loop task has ended,
\* aclose() returns
LifespanFairness == WF_vars(StopMonitor) /\ WF_vars(CloseDistributor)

SpecLifecycleFair == InitLifecycle /\ [][NextLifecycle]_vars /\ LifespanFairness

\* the service with one worker more than NUM_WORKERS, the largest queue
\* bound and a registry that no probe changes
FifoWorkers == 1..(NUM_WORKERS + 1)

InitFifo ==
  /\ MAX_QUEUE_SIZE = MaxQueueSize
  /\ MAX_RETRIES \in 0..MaxRetriesBound
  /\ analyzers = get_analyzers
  /\ stats = InitStats(get_analyzers)
  /\ lock = Unlocked
  /\ packet_queue = <<>>
  /\ worker = [w \in FifoWorkers |-> InitWorker]
  /\ monitor = InitMonitor
  /\ ingested = 0
  /\ accepted = 0
  /\ last_response = "none"
  /\ returned = 0
  /\ posts_issued = 0
  /\ posts_to = [n \in ConfiguredNames(get_analyzers) |-> 0]
  /\ selected = "unset"
  /\ rand = 0
  /\ running = TRUE
  /\ view = NoView
  /\ reads = 0
  /\ probed = <<>>
  /\ lifespan = Ready

NextFifo ==
  \/ \E req \in Requests : ingest_log_packet(req)
  \/ \E w \in FifoWorkers : Take(w)
  \/ \E w \in FifoWorkers : SelectEnter(w)
  \/ \E w \in FifoWorkers : \E r \in DrawsFor(worker[w].healthy_analyzers) : SelectDraw(w, r)
  \/ \E w \in FifoWorkers : \E o \in SendOutcomes : \E p \in BOOLEAN : Response(w, o, p)
  \/ \E w \in FifoWorkers : Wake(w)
  \/ \E w \in FifoWorkers : RecordSuccess(w)
  \/ \E w \in FifoWorkers : RecordFailure(w)
  \/ \E w \in FifoWorkers : TaskDone(w)

SpecFifo == InitFifo /\ [][NextFifo]_vars

\* the service with its read endpoints and its shutdown, one request
\* ingested
NextService ==
  \/ \E req \in Requests : IngestWithin(MaxServed, req)
  \/ \E w \in Workers : Take(w)
  \/ \E w \in Workers : SelectEnter(w)
  \/ \E w \in Workers : \E r \in DrawsFor(worker[w].healthy_analyzers) : SelectDraw(w, r)
  \/ \E w \in Workers : \E o \in SendOutcomes : \E p \in BOOLEAN : Response(w, o, p)
  \/ \E w \in Workers : Wake(w)
  \/ \E w \in Workers : RecordSuccess(w)
  \/ \E w \in Workers : RecordFailure(w)
  \/ \E w \in Workers : TaskDone(w)
  \/ \E o \in [1..Len(analyzers) -> ProbeOutcomes] : CheckAll(o)
  \/ ApplyResult
  \/ MonitorWake
  \/ get_stats
  \/ health_check
  \/ Shutdown
  \/ StopMonitor

SpecService == Init /\ [][NextService]_vars

\* the service with a queue of one packet, for every MAX_RETRIES up to
\* MaxRetriesLoop
InitRetryLoop == InitConfigured(get_analyzers, {1}, 0..MaxRetriesLoop)

\* one packet through the retry loop, its analyzers probed meanwhile
NextRetryLoop ==
  \/ \E req \in Requests : IngestWithin(MaxServed, req)
  \/ \E w \in Workers : Take(w)
  \/ \E w \in Workers : SelectEnter(w)
  \/ \E w \in Workers : \E r \in DrawsFor(worker[w].healthy_analyzers) : SelectDraw(w, r)
  \/ \E w \in Workers : \E o \in SendOutcomes : \E p \in BOOLEAN : Response(w, o, p)
  \/ \E w \in Workers : Wake(w)
  \/ \E w \in Workers : RecordSuccess(w)
  \/ \E w \in Workers : RecordFailure(w)
  \/ \E w \in Workers : TaskDone(w)
  \/ \E o \in [1..Len(analyzers) -> ProbeOutcomes] : CheckAll(o)
  \/ ApplyResult
  \/ MonitorWake

SpecRetryLoop == InitRetryLoop /\ [][NextRetryLoop]_vars

\* a burst of more requests than queue and workers can hold, against
\* analyzers that stay as configured
InitBurst == InitWith(get_analyzers, 1..MaxQueueSize)

NextBurst ==
  \/ \E req \in Requests : IngestWithin(MaxBurst, req)
  \/ \E w \in Workers : Take(w)
  \/ \E w \in Workers : SelectEnter(w)
  \/ \E w \in Workers : \E r \in DrawsFor(worker[w].healthy_analyzers) : SelectDraw(w, r)
  \/ \E w \in Workers : \E o \in SendOutcomes : \E p \in BOOLEAN : Response(w, o, p)
  \/ \E w \in Workers : Wake(w)
  \/ \E w \in Workers : RecordSuccess(w)
  \/ \E w \in Workers : RecordFailure(w)
  \/ \E w \in Workers : TaskDone(w)

SpecBurst == InitBurst /\ [][NextBurst]_vars

\* a lock whose acquire always lets the event loop run another task
AcquireSuspends_Always(l) == TRUE

\* asyncio.Lock.acquire suspends the caller only if the lock is taken: a
\* free lock is taken at once and the caller runs on
AcquireSuspends(l) == l # Unlocked

\* the prober between two updates of one round: the loop over the results
\* has no other await than update_analyzer_health's acquire, so the prober
\* leaves the event loop to nobody unless that acquire suspends it
ProberHoldsLoop ==
  /\ monitor.pc = "apply"
  /\ monitor.idx > 1
  /\ ~AcquireSuspends(lock)

LoopFree == ~ProberHoldsLoop

\* the service on one event loop: a task runs until it is suspended
NextLoop ==
  \/ LoopFree /\ \E req \in Requests : ingest_log_packet(req)
  \/ LoopFree /\ \E w \in Workers : Take(w)
  \/ LoopFree /\ \E w \in Workers : SelectEnter(w)
  \/ LoopFree /\ \E w \in Workers : \E r \in DrawsFor(worker[w].healthy_analyzers) : SelectDraw(w, r)
  \/ LoopFree /\ \E w \in Workers : \E o \in SendOutcomes : \E p \in BOOLEAN : Response(w, o, p)
  \/ LoopFree /\ \E w \in Workers : Wake(w)
  \/ LoopFree /\ \E w \in Workers : RecordSuccess(w)
  \/ LoopFree /\ \E w \in Workers : RecordFailure(w)
  \/ LoopFree /\ \E w \in Workers : TaskDone(w)
  \/ \E o \in [1..Len(analyzers) -> ProbeOutcomes] : CheckAll(o)
  \/ ApplyResult
  \/ MonitorWake

SpecLoop == Init /\ [][NextLoop]_vars

\* every user of the lock: the workers, the prober and the two read
\* handlers, each task resumed whenever it can run
InitLockUsers == InitConfigured(get_analyzers, {1}, {1})

NextLockUsers ==
  \/ \E req \in Requests : IngestWithin(MaxContended, req)
  \/ \E w \in Workers : Take(w)
  \/ \E w \in Workers : SelectEnter(w)
  \/ \E w \in Workers : \E r \in DrawsFor(worker[w].healthy_analyzers) : SelectDraw(w, r)
  \/ \E w \in Workers : \E o \in SendOutcomes : \E p \in BOOLEAN : Response(w, o, p)
  \/ \E w \in Workers : Wake(w)
  \/ \E w \in Workers : RecordSuccess(w)
  \/ \E w \in Workers : RecordFailure(w)
  \/ \E w \in Workers : TaskDone(w)
  \/ \E o \in [1..Len(analyzers) -> ProbeOutcomes] : CheckAll(o)
  \/ ApplyResult
  \/ MonitorWake
  \/ get_stats
  \/ health_check

SpecLockUsers == InitLockUsers /\ [][NextLockUsers]_vars /\ Fairness

\* the service for every MAX_QUEUE_SIZE from zero on, as int(os.getenv(...))
\* admits it
InitAnyQueueSize == InitWith(get_analyzers, 0..MaxQueueSize)

SpecAnyQueueSize == InitAnyQueueSize /\ [][Next]_vars

\* registries of NumSelAnalyzers analyzers with every combination of
\* weights in 0..MaxWeight and of health flags
SelRegistries ==
  {[i \in 1..NumSelAnalyzers |-> Analyzer(AnalyzerNames[i], ws[i], hs[i])] :
     ws \in [1..NumSelAnalyzers -> 0..MaxWeight],
     hs \in [1..NumSelAnalyzers -> BOOLEAN]}

InitSelector == \E registry \in SelRegistries : InitWith(registry, {1})

\* one call of _select_analyzer on the registry, with draw r
select_analyzer(r) ==
  /\ SelectLockFree
  /\ r \in DrawsFor(HealthyAnalyzers(analyzers))
  /\ rand' = r
  /\ selected' = SelectAnalyzer(analyzers, r)
  /\ UNCHANGED <<running, view, reads, MAX_QUEUE_SIZE, MAX_RETRIES, analyzers, stats, lock,
                 packet_queue, worker, monitor, ingested, accepted,
                 last_response, returned, posts_issued, posts_to, probed, lifespan>>

NextSelector == \E r \in DrawsFor(HealthyAnalyzers(analyzers)) : select_analyzer(r)

\* the selector alone, over every registry of the input space
SpecSelector == InitSelector /\ [][NextSelector]_vars

\* the names update_analyzer_health is called with: the configured ones
\* and one that is not configured
HealthNames == {AnalyzerNames[i] : i \in 1..(NumSelAnalyzers + 1)}

\* one call of update_analyzer_health
update_analyzer_health(analyzer_name, is_healthy) ==
  /\ HealthLockFree
  /\ analyzers' = UpdateAnalyzerHealth(analyzers, analyzer_name, is_healthy)
  /\ UNCHANGED <<running, view, reads, MAX_QUEUE_SIZE, MAX_RETRIES, stats, lock,
                 packet_queue, worker, monitor, ingested, accepted,
                 last_response, returned, posts_issued, posts_to, selected, rand,
                 probed, lifespan>>

\* registries of NumSelAnalyzers analyzers of any weights, every flag true
\* as at the start
InitSetHealth ==
  \E registry \in {reg \in SelRegistries : \A i \in 1..Len(reg) : reg[i].is_healthy} :
    InitWith(registry, {1})

NextSetHealth ==
  \E n \in HealthNames : \E h \in BOOLEAN : update_analyzer_health(n, h)

\* update_analyzer_health alone, called with any name and value in any order
SpecSetHealth == InitSetHealth /\ [][NextSetHealth]_vars

\* HealthMonitor on its own: start and stop called in any order, each call
\* run to its end before the next, and the loop's rounds in between
InitStartStop ==
  /\ MAX_QUEUE_SIZE = 1
  /\ MAX_RETRIES = 0
  /\ analyzers = get_analyzers
  /\ stats = InitStats(get_analyzers)
  /\ lock = Unlocked
  /\ packet_queue = <<>>
  /\ worker = [w \in Workers |-> [InitWorker EXCEPT !.pc = "unstarted"]]
  /\ monitor = NewMonitor
  /\ ingested = 0
  /\ accepted = 0
  /\ last_response = "none"
  /\ returned = 0
  /\ posts_issued = 0
  /\ posts_to = [n \in ConfiguredNames(get_analyzers) |-> 0]
  /\ selected = "unset"
  /\ rand = 0
  /\ running = FALSE
  /\ view = NoView
  /\ reads = 0
  /\ probed = <<>>
  /\ lifespan = [NotStarted EXCEPT !.pc = "monitor", !.queue = TRUE,
                                   !.distributor = TRUE, !.client = "open",
                                   !.health_client = "open"]

start ==
  /\ monitor' = HealthMonitorStart(monitor)
  /\ UNCHANGED <<MAX_QUEUE_SIZE, MAX_RETRIES, analyzers, stats, lock,
                 packet_queue, worker, ingested, accepted, last_response,
                 returned, posts_issued, posts_to, selected, rand, running, view,
                 reads, probed, lifespan>>

stop ==
  /\ monitor' = HealthMonitorStop(monitor)
  /\ lifespan' = IF MonitorRunning(monitor)
                 THEN [lifespan EXCEPT !.health_client = "closed"]
                 ELSE lifespan
  /\ UNCHANGED <<MAX_QUEUE_SIZE, MAX_RETRIES, analyzers, stats, lock,
                 packet_queue, worker, ingested, accepted, last_response,
                 returned, posts_issued, posts_to, selected, rand, running, view,
                 reads, probed>>

NextStartStop ==
  \/ start
  \/ stop
  \/ \E o \in [1..Len(analyzers) -> ProbeOutcomes] : CheckAllRecorded(o)
  \/ ApplyResult
  \/ MonitorWake
  \/ RoundFails

SpecStartStop == InitStartStop /\ [][NextStartStop]_vars

(* ------------------------- auxiliary definitions ----------------------- *)

RECURSIVE SumOver(_, _)
\* sum of f over the set S
SumOver(f, S) ==
  IF S = {} THEN 0
  ELSE LET x == CHOOSE y \in S : TRUE IN f[x] + SumOver(f, S \ {x})

\* indices of the analyzers flagged healthy
HealthyIdx(as) == {i \in 1..Len(as) : as[i].is_healthy}

\* exact sum of the weights of the analyzers with index in I
WeightOf(as, I) == SumOver([i \in 1..Len(as) |-> as[i].weight], I)

\* cumulative weight of the healthy analyzers up to and including index i
CumulativeTo(as, i) == WeightOf(as, {j \in HealthyIdx(as) : j <= i})

MinOf(S) == CHOOSE x \in S : \A y \in S : x <= y

MaxOf(S) == CHOOSE x \in S : \A y \in S : x >= y

\* the reference selector of the specification, section 4.3
RefSelect(as, r) ==
  LET H == HealthyIdx(as)
      K == {i \in H : r < CumulativeTo(as, i)}
  IN IF H = {} THEN None
     ELSE IF WeightOf(as, H) = 0 THEN None
     ELSE IF K # {} THEN as[MinOf(K)].name
     ELSE as[MaxOf(H)].name

\* workers that hold a packet
Busy == {w \in Workers : worker[w].pc # "take"}

PerAnalyzerPackets == SumOver(stats.packets_per_analyzer, DOMAIN stats.packets_per_analyzer)

FlaggedHealthy(name) ==
  \E i \in 1..Len(analyzers) : analyzers[i].name = name /\ analyzers[i].is_healthy

(* -------------------------------- claims ------------------------------- *)

\* A property of every step is stated on the states: in no state can the
\* service take a step that breaks it.  For a step formula A and the
\* next-state relation N of the specification, ~ENABLED <<N /\ ~A>>_vars in
\* every reachable state is [][A]_vars on every behaviour.

\* C1: every packet whose distribute call has returned was counted exactly
\* once, as a success for one analyzer or as a failed send, so that in every
\* state total_packets_received + failed_sends is the number of returned
\* distribute calls; a step that returns from distribute adds one to exactly
\* one of the two, and no other step changes them.
CountedInvariant ==
  /\ stats.total_packets_received + stats.failed_sends = returned
  /\ PerAnalyzerPackets + stats.failed_sends = returned
  /\ \A w \in Workers :
       worker[w].pc \in {"select", "draw", "post", "sleep", "record_success",
                         "record_failure"} => returned < accepted

CountedStep ==
  LET dt == stats'.total_packets_received - stats.total_packets_received
      df == stats'.failed_sends - stats.failed_sends
      dr == returned' - returned
  IN /\ dr \in {0, 1}
     /\ dt \in {0, 1}
     /\ df \in {0, 1}
     /\ dt + df = dr
     /\ dt = 1 =>
          \E a \in DOMAIN stats.packets_per_analyzer :
            stats'.packets_per_analyzer =
              [stats.packets_per_analyzer EXCEPT ![a] = @ + 1]
     /\ dt = 0 => stats'.packets_per_analyzer = stats.packets_per_analyzer

CountedExactlyOnce ==
  /\ CountedInvariant
  /\ ~ENABLED <<Next /\ ~CountedStep>>_vars

CountedExactlyOnceWitness ==
  /\ returned = 2
  /\ stats.total_packets_received = 1
  /\ stats.failed_sends = 1

\* C2 as stated: over all attempts made for one packet, the packet is
\* received and processed at most once, by at most one analyzer.
ProcessedAtMostOnce == \A w \in Workers : worker[w].processed <= 1

\* C2, amended: a packet is acknowledged with a 2xx at most once; after the
\* 2xx no further request is issued for it and the success is recorded for
\* the acknowledging analyzer; the analyzers process it at most once per
\* request issued, that is at most MAX_RETRIES + 1 times.
AckedInvariant ==
  \A w \in Workers :
    /\ worker[w].processed <= worker[w].posts
    /\ worker[w].posts <= MAX_RETRIES + 1
    /\ worker[w].acked =>
         /\ worker[w].pc \in {"record_success", "returned"}
         /\ worker[w].processed >= 1
         /\ worker[w].analyzer # None
    /\ (worker[w].pc = "returned" /\ worker[w].success) => worker[w].acked

AckedStep ==
  \A w \in Workers :
    worker[w].acked =>
      \/ worker'[w] = InitWorker
      \/ /\ worker'[w].posts = worker[w].posts
         /\ worker'[w].processed = worker[w].processed
         /\ worker'[w].analyzer = worker[w].analyzer
         /\ worker'[w].acked
         /\ worker'[w].pc # worker[w].pc =>
              stats'.packets_per_analyzer =
                [stats.packets_per_analyzer EXCEPT ![worker[w].analyzer] = @ + 1]

AcknowledgedAtMostOnce ==
  /\ AckedInvariant
  /\ ~ENABLED <<Next /\ ~AckedStep>>_vars

AcknowledgedAtMostOnceWitness ==
  \E w \in Workers :
    /\ worker[w].pc = "returned"
    /\ worker[w].acked
    /\ worker[w].posts = 2
    /\ worker[w].processed = 2

\* C3: whenever the lock is free, total_packets_received is the sum of
\* packets_per_analyzer over the configured analyzers.
TotalIsSumOfPerAnalyzer ==
  lock = Unlocked =>
    /\ DOMAIN stats.packets_per_analyzer = ConfiguredNames(analyzers)
    /\ stats.total_packets_received = PerAnalyzerPackets

TotalIsSumOfPerAnalyzerWitness ==
  /\ lock = Unlocked
  /\ monitor.pc = "apply"
  /\ stats.total_packets_received = 2
  /\ \A n \in ConfiguredNames(analyzers) : stats.packets_per_analyzer[n] = 1

\* C4: for every value of MAX_QUEUE_SIZE, the ingress queue never holds more
\* than MAX_QUEUE_SIZE packets.
QueueNeverExceedsBound == Len(packet_queue) <= MAX_QUEUE_SIZE

\* C5: POST /ingest with a valid packet never waits and has two outcomes:
\* with fewer than MAX_QUEUE_SIZE packets queued the packet is appended and
\* 202 is answered, nothing else changing; with MAX_QUEUE_SIZE packets queued
\* 503 is answered and the queue is unchanged.  A rejected packet is not
\* enqueued later: the packets in the queue and in the workers are the
\* accepted ones that have not returned.
IngestAlwaysPossible ==
  /\ ingested < MaxIngest =>
       \A m \in 1..MaxMessages :
         ENABLED ingest_log_packet([packet_id_len |-> 1, agent_id_len |-> 1,
                                    messages |-> m, messages_valid |-> TRUE])
  /\ Len(packet_queue) + Cardinality(Busy) + returned - Cardinality({w \in Workers : worker[w].pc = "returned"}) = accepted
  /\ last_response \in {"none", "202", "503", "422"}

IngestStep ==
  (ingested' # ingested /\ last_response' # "422") =>
    /\ ingested' = ingested + 1
    /\ UNCHANGED <<analyzers, stats, lock, worker, monitor, returned, posts_issued>>
    /\ IF Len(packet_queue) < MAX_QUEUE_SIZE
       THEN /\ last_response' = "202"
            /\ accepted' = accepted + 1
            /\ Len(packet_queue') = Len(packet_queue) + 1
            /\ SubSeq(packet_queue', 1, Len(packet_queue)) = packet_queue
            /\ packet_queue'[Len(packet_queue')].packet_id = ingested + 1
            /\ packet_queue'[Len(packet_queue')].messages \in 1..MaxMessages
       ELSE /\ Len(packet_queue) = MAX_QUEUE_SIZE
            /\ last_response' = "503"
            /\ accepted' = accepted
            /\ packet_queue' = packet_queue

QueueOnlyGrowsByIngest ==
  (ingested' = ingested) =>
    \/ packet_queue' = packet_queue
    \/ packet_queue' = Tail(packet_queue)

IngestNonBlocking ==
  /\ IngestAlwaysPossible
  /\ ~ENABLED <<Next /\ ~(IngestStep /\ QueueOnlyGrowsByIngest)>>_vars

IngestNonBlockingWitness ==
  /\ last_response = "503"
  /\ Len(packet_queue) = MAX_QUEUE_SIZE
  /\ accepted < ingested
  /\ \A i \in 1..Len(analyzers) : ~analyzers[i].is_healthy

\* C6: no selection returns an analyzer that is flagged unhealthy when the
\* selection returns, and no health mutation happens between the filter and
\* the walk of a selection in progress: the selecting worker holds the lock
\* and its list of healthy analyzers is the registry's.
SelectionHoldsLock ==
  /\ \A w \in Workers :
       worker[w].pc = "draw" =>
         /\ lock = w
         /\ worker[w].healthy_analyzers = HealthyAnalyzers(analyzers)
  /\ lock # Unlocked => worker[lock].pc = "draw"

SelectionStep ==
  /\ lock # Unlocked => analyzers' = analyzers
  /\ \A w \in Workers :
       (worker[w].pc = "draw" /\ worker'[w].pc = "post") =>
         /\ FlaggedHealthy(worker'[w].analyzer)
         /\ \E i \in 1..Len(analyzers') :
              /\ analyzers'[i].name = worker'[w].analyzer
              /\ analyzers'[i].is_healthy

StaleFreeSelection ==
  /\ SelectionHoldsLock
  /\ ~ENABLED <<Next /\ ~SelectionStep>>_vars

StaleFreeSelectionWitness ==
  \E w \in Workers :
    /\ worker[w].pc = "draw"
    /\ monitor.pc = "apply"
    /\ monitor.idx = 2
    /\ ~analyzers[1].is_healthy
    /\ analyzers[2].is_healthy
    /\ ~monitor.results[2]

\* C7: the selector's result is the reference function of the registry and
\* the draw: None when no analyzer is healthy or the healthy weights sum to
\* 0, otherwise the first healthy analyzer whose cumulative weight exceeds
\* the draw, the last healthy one if there is none; the result is a
\* configured analyzer flagged healthy.
SelectorMatchesReference ==
  selected # "unset" =>
    /\ selected = RefSelect(analyzers, rand)
    /\ selected # None => FlaggedHealthy(selected)
    /\ selected = None <=>
         \/ HealthyIdx(analyzers) = {}
         \/ WeightOf(analyzers, HealthyIdx(analyzers)) = 0

SelectorMatchesReferenceWitness ==
  /\ selected = "analyzer-3"
  /\ analyzers[1].is_healthy
  /\ analyzers[1].weight > 0
  /\ ~analyzers[2].is_healthy
  /\ analyzers[2].weight > 0
  /\ rand >= analyzers[1].weight

\* C8: with W the weight sum of the analyzers healthy at the call, the draws
\* below W are the W integers 0..W-1, exactly weight(a) of them select the
\* healthy analyzer a, and none selects an unhealthy one.
DrawsSelecting(name) ==
  {r \in UniformDraws(SumWeights(HealthyAnalyzers(analyzers))) :
     SelectAnalyzer(analyzers, r) = name}

Renormalized ==
  LET W == WeightOf(analyzers, HealthyIdx(analyzers))
  IN W > 0 =>
       /\ UniformDraws(SumWeights(HealthyAnalyzers(analyzers))) = 0..(W - 1)
       /\ \A i \in 1..Len(analyzers) :
            Cardinality(DrawsSelecting(analyzers[i].name)) =
              IF analyzers[i].is_healthy THEN analyzers[i].weight ELSE 0

RenormalizedWitness ==
  /\ analyzers[1].weight = 4 /\ analyzers[1].is_healthy
  /\ analyzers[2].weight = 3 /\ ~analyzers[2].is_healthy
  /\ analyzers[3].weight = 2 /\ analyzers[3].is_healthy
  /\ selected = "analyzer-3"
  /\ rand = 5

\* C9: when the selector returns None on an attempt, no POST is issued on
\* that attempt or later for the packet, no backoff sleep follows,
\* failed_sends grows by exactly 1 and the packet is dropped; as long as no
\* POST was ever issued, every returned packet is a failed send.
NoAnalyzerInvariant ==
  /\ \A w \in Workers :
       worker[w].last = "no_analyzer" =>
         /\ worker[w].pc \in {"record_failure", "returned"}
         /\ worker[w].analyzer = None
         /\ worker[w].posts = worker[w].attempt
         /\ worker[w].slept = Pow2(worker[w].attempt) - 1
         /\ worker[w].pc = "returned" => ~worker[w].success
  /\ posts_issued = 0 => stats.failed_sends = returned

NoAnalyzerStep ==
  \A w \in Workers :
    /\ (worker[w].pc = "draw" /\ worker'[w].pc # "draw" /\ HealthyIdx(analyzers) = {}) =>
         /\ worker'[w].pc = "record_failure"
         /\ worker'[w].last = "no_analyzer"
         /\ posts_issued' = posts_issued
    /\ (worker[w].last = "no_analyzer" /\ worker'[w] # worker[w]) =>
         \/ /\ worker[w].pc = "record_failure"
            /\ worker'[w] = [worker[w] EXCEPT !.pc = "returned"]
            /\ stats' = [stats EXCEPT !.failed_sends = @ + 1]
            /\ posts_issued' = posts_issued
         \/ /\ worker[w].pc = "returned"
            /\ worker'[w] = InitWorker
            /\ stats' = stats

NoAnalyzerDropsPacket ==
  /\ NoAnalyzerInvariant
  /\ ~ENABLED <<Next /\ ~NoAnalyzerStep>>_vars

NoAnalyzerDropsPacketWitness ==
  /\ \A i \in 1..Len(analyzers) : ~analyzers[i].is_healthy
  /\ accepted = 2
  /\ ingested = 2
  /\ stats.failed_sends = 2
  /\ posts_issued = 0

\* C10: after a 4xx response the worker issues no further request for the
\* packet and does not sleep, failed_sends grows by exactly 1, and a 4xx on
\* the first attempt means exactly one request for the packet.
ClientErrorInvariant ==
  \A w \in Workers :
    worker[w].last = "4xx" =>
      /\ worker[w].pc \in {"record_failure", "returned"}
      /\ worker[w].posts = worker[w].attempt + 1
      /\ worker[w].slept = Pow2(worker[w].attempt) - 1
      /\ worker[w].attempt = 0 => worker[w].posts = 1
      /\ worker[w].pc = "returned" => ~worker[w].success

ClientErrorStep ==
  \A w \in Workers :
    (worker[w].last = "4xx" /\ worker'[w] # worker[w]) =>
      \/ /\ worker[w].pc = "record_failure"
         /\ worker'[w] = [worker[w] EXCEPT !.pc = "returned"]
         /\ stats' = [stats EXCEPT !.failed_sends = @ + 1]
         /\ posts_issued' = posts_issued
      \/ /\ worker[w].pc = "returned"
         /\ worker'[w] = InitWorker
         /\ stats' = stats

ClientErrorNotRetried ==
  /\ ClientErrorInvariant
  /\ ~ENABLED <<Next /\ ~ClientErrorStep>>_vars

ClientErrorNotRetriedWitness ==
  \E w \in Workers :
    /\ worker[w].pc = "returned"
    /\ worker[w].last = "4xx"
    /\ worker[w].attempt = 0
    /\ worker[w].posts = 1
    /\ stats.failed_sends = 1
    /\ MAX_RETRIES >= 1

\* C11: a packet whose attempts all end in a retry-eligible outcome (5xx,
\* timeout, connect error, other exception), each after a selection that
\* found an analyzer, gets exactly MAX_RETRIES + 1 requests, with a backoff
\* sleep after each but the last, and then failed_sends grows by exactly 1
\* and nothing else is sent for it.
RetryExhaustionInvariant ==
  \A w \in Workers :
    worker[w].last = "transient" =>
      /\ worker[w].pc \in {"sleep", "record_failure", "returned"}
      /\ worker[w].posts = worker[w].attempt + 1
      /\ worker[w].pc = "sleep" => worker[w].attempt < MAX_RETRIES
      /\ worker[w].pc \in {"record_failure", "returned"} =>
           /\ worker[w].attempt = MAX_RETRIES
           /\ worker[w].posts = MAX_RETRIES + 1
           /\ worker[w].slept = Pow2(MAX_RETRIES) - 1
      /\ worker[w].pc = "returned" => ~worker[w].success

RetryExhaustionStep ==
  \A w \in Workers :
    (worker[w].last = "transient" /\ worker'[w] # worker[w]) =>
      \/ /\ worker[w].pc = "sleep"
         /\ worker'[w] = [worker[w] EXCEPT !.pc = "select", !.attempt = @ + 1,
                                           !.last = "none"]
         /\ stats' = stats
         /\ posts_issued' = posts_issued
      \/ /\ worker[w].pc = "record_failure"
         /\ worker'[w] = [worker[w] EXCEPT !.pc = "returned"]
         /\ stats' = [stats EXCEPT !.failed_sends = @ + 1]
         /\ posts_issued' = posts_issued
      \/ /\ worker[w].pc = "returned"
         /\ worker'[w] = InitWorker
         /\ stats' = stats

RetriesExhausted ==
  /\ RetryExhaustionInvariant
  /\ ~ENABLED <<NextRetryLoop /\ ~RetryExhaustionStep>>_vars

RetriesExhaustedWitness ==
  \E w \in Workers :
    /\ MAX_RETRIES = 2
    /\ worker[w].pc = "returned"
    /\ worker[w].last = "transient"
    /\ worker[w].posts = 3
    /\ stats.failed_sends = 1

\* C12: packets_per_analyzer[a] grows only by 1, only in the step in which
\* a worker records the 2xx it received for the POST it had issued to a, the
\* analyzer of that POST being unchanged since it was issued; an attempt
\* that ends otherwise changes no counter; hence packets_per_analyzer[a],
\* together with the POSTs to a not yet settled, never exceeds the number of
\* POSTs issued to a.
OutstandingTo(a) ==
  Cardinality({w \in Workers : /\ worker[w].pc \in {"post", "record_success"}
                               /\ worker[w].analyzer = a})

CreditInvariant ==
  /\ \A a \in ConfiguredNames(analyzers) :
       stats.packets_per_analyzer[a] + OutstandingTo(a) <= posts_to[a]
  /\ \A w \in Workers :
       /\ worker[w].pc = "record_success" =>
            /\ worker[w].acked
            /\ worker[w].last = "2xx"
       /\ worker[w].pc \in {"post", "record_success"} =>
            worker[w].analyzer \in ConfiguredNames(analyzers)

CreditStep ==
  /\ \A w \in Workers :
       /\ worker[w].pc \in {"post", "record_success"} =>
            \/ worker'[w].analyzer = worker[w].analyzer
            \/ worker'[w].pc = "stopped"
       /\ (worker[w].pc = "post" /\ worker'[w].pc # "post") =>
            /\ stats' = stats
            /\ worker'[w].pc = "record_success" <=> worker'[w].last = "2xx"
  /\ stats'.packets_per_analyzer # stats.packets_per_analyzer =>
       \E w \in Workers :
         /\ worker[w].pc = "record_success"
         /\ worker[w].last = "2xx"
         /\ worker'[w].pc = "returned"
         /\ stats'.packets_per_analyzer =
              [stats.packets_per_analyzer EXCEPT ![worker[w].analyzer] = @ + 1]

CreditedOnlyOnAck ==
  /\ CreditInvariant
  /\ ~ENABLED <<NextService /\ ~CreditStep>>_vars

CreditedOnlyOnAckWitness ==
  /\ posts_to["analyzer-1"] = 1
  /\ posts_to["analyzer-2"] = 1
  /\ stats.packets_per_analyzer["analyzer-1"] = 0
  /\ stats.packets_per_analyzer["analyzer-2"] = 1
  /\ returned = 1

\* C13: if from some point on every probe round classifies analyzer i as
\* unhealthy, then from some point on i is flagged unhealthy and no worker
\* holds it as the target of a selection; if from some point on every round
\* classifies it as healthy, then from some point on it is flagged healthy
\* and the selector returns it for as many draws as its configured weight.
AlwaysProbedDown(i) == <>[](monitor.pc = "apply" => ~monitor.results[i])

AlwaysProbedUp(i) == <>[](monitor.pc = "apply" => monitor.results[i])

Deselected(i) ==
  /\ ~analyzers[i].is_healthy
  /\ \A w \in Workers : worker[w].analyzer # analyzers[i].name

Reselectable(i) ==
  /\ analyzers[i].is_healthy
  /\ analyzers[i].weight = ConfigWeights[i]
  /\ Cardinality(DrawsSelecting(analyzers[i].name)) = ConfigWeights[i]

HealthEventuallyFollowsProbes ==
  \A i \in 1..NumAnalyzers :
    /\ AlwaysProbedDown(i) => <>[]Deselected(i)
    /\ AlwaysProbedUp(i) => <>[]Reselectable(i)

HealthEventuallyFollowsProbesWitness ==
  /\ monitor.pc = "apply"
  /\ monitor.idx = 1
  /\ monitor.results[1]
  /\ ~analyzers[1].is_healthy
  /\ ~analyzers[2].is_healthy
  /\ \E w \in Workers : worker[w].last = "no_analyzer" /\ worker[w].pc = "returned"

\* C14: a probe round classifies an analyzer as healthy exactly when its
\* health GET returned status 200 (any other status, a timeout, a connect
\* error or any other exception gives unhealthy), and the value written to
\* an analyzer's flag is the classification of its own probe: after the
\* round the flags are the classifications, and each write changes the flag
\* of the analyzer probed and nothing else of the registry.
Classification(outcome) == outcome = "200"

ProbeClassified ==
  /\ monitor.pc = "apply" =>
       /\ monitor.results = [i \in 1..Len(analyzers) |-> Classification(probed[i])]
       /\ \A i \in 1..(monitor.idx - 1) :
            analyzers[i].is_healthy = Classification(probed[i])
  /\ (monitor.pc = "sleep" /\ probed # <<>>) =>
       \A i \in 1..Len(analyzers) :
         analyzers[i].is_healthy = Classification(probed[i])

ClassificationWritten ==
  /\ (monitor.pc = "apply" /\ monitor' # monitor) =>
       analyzers' = [analyzers EXCEPT ![monitor.idx].is_healthy =
                                        Classification(probed[monitor.idx])]
  /\ monitor.pc # "apply" => analyzers' = analyzers

ProbeClassification == [](ProbeClassified) /\ [][ClassificationWritten]_vars

ProbeClassificationWitness ==
  /\ monitor.pc = "sleep"
  /\ probed = <<"204", "200">>
  /\ ~analyzers[1].is_healthy
  /\ analyzers[2].is_healthy

\* C15: when the shutdown sequence has completed, every packet that was
\* answered 202 has been taken from the queue and counted, as a success or
\* as a failed send.
ShutdownDrains ==
  ShutdownComplete =>
    /\ packet_queue = <<>>
    /\ stats.total_packets_received + stats.failed_sends = accepted

\* C16: while the service runs, under fair scheduling, every packet in the
\* queue eventually reaches a terminal outcome in the hands of a worker that
\* took it, counted once as a success or as a failed send, and again and
\* again no packet is left in the queue or in processing.
InQueue(p) == \E i \in 1..Len(packet_queue) : packet_queue[i].packet_id = p

HeldBy(w, p) == worker[w].packet.packet_id = p

Terminal(p) == \E w \in Workers : HeldBy(w, p) /\ worker[w].pc = "returned"

NothingPending == packet_queue = <<>> /\ Busy = {}

SettledInvariant ==
  /\ stats.total_packets_received + stats.failed_sends = returned
  /\ accepted = returned + Len(packet_queue) + Cardinality(Busy)
                  - Cardinality({w \in Workers : worker[w].pc = "returned"})
  /\ NothingPending => returned = accepted

EveryAcceptedPacketSettles ==
  /\ \A p \in 1..MaxIngest : InQueue(p) ~> Terminal(p)
  /\ []<>NothingPending
  /\ []SettledInvariant

EveryAcceptedPacketSettlesWitness ==
  \E w \in Workers :
    /\ HeldBy(w, 2)
    /\ worker[w].pc = "returned"
    /\ worker[w].attempt = 1
    /\ worker[w].success
    /\ returned = 2
    /\ stats.failed_sends = 1

\* C17: a request whose body violates the schema (empty packet_id, empty
\* agent_id, no message, or an invalid message) is answered 422 and changes
\* neither the queue nor any statistic nor any worker; every packet in the
\* queue or held by a worker satisfies the schema.
WellFormed(p) ==
  /\ p.packet_id_len >= 1
  /\ p.agent_id_len >= 1
  /\ p.messages >= 1
  /\ p.messages_valid

OnlyValidPackets ==
  /\ \A i \in 1..Len(packet_queue) : WellFormed(packet_queue[i])
  /\ \A w \in Busy : worker[w].pc # "stopped" => WellFormed(worker[w].packet)

RejectedStep ==
  ingested' # ingested =>
    \A req \in Requests :
      ingest_log_packet(req) =>
        IF WellFormed(req)
        THEN last_response' \in {"202", "503"}
        ELSE /\ last_response' = "422"
             /\ UNCHANGED <<packet_queue, accepted, stats, worker, analyzers,
                            returned, posts_issued, posts_to>>

InvalidPacketRejected ==
  /\ OnlyValidPackets
  /\ ~ENABLED <<Next /\ ~RejectedStep>>_vars

InvalidPacketRejectedWitness ==
  /\ last_response = "422"
  /\ ingested = 2
  /\ accepted = 1
  /\ Len(packet_queue) = 1
  /\ MAX_QUEUE_SIZE = 2

\* C18: no step of the service (a worker's success or failure, a health
\* update, a read of the statistics or of the health, an ingest, the
\* shutdown) decreases a counter: the two per-analyzer counters of every
\* configured analyzer, the two totals and failed_sends.
CountersNotDecreased ==
  /\ stats'.total_packets_received >= stats.total_packets_received
  /\ stats'.total_messages_received >= stats.total_messages_received
  /\ stats'.failed_sends >= stats.failed_sends
  /\ \A n \in ConfiguredNames(analyzers) :
       /\ stats'.packets_per_analyzer[n] >= stats.packets_per_analyzer[n]
       /\ stats'.messages_per_analyzer[n] >= stats.messages_per_analyzer[n]

\* a step of the running service, of one of its read handlers or of its
\* shutdown
ServiceStep == Next \/ get_stats \/ health_check \/ Shutdown \/ StopMonitor

CountersMonotone ==
  ~ENABLED <<ServiceStep /\ ~CountersNotDecreased>>_vars

CountersMonotoneWitness ==
  /\ returned = 2
  /\ stats.packets_per_analyzer["analyzer-1"] = 2
  /\ stats.messages_per_analyzer["analyzer-1"] = 3
  /\ stats.total_messages_received = 3
  /\ \E i \in 1..Len(analyzers) : ~analyzers[i].is_healthy

\* C19: in every state the keys of packets_per_analyzer and of
\* messages_per_analyzer are exactly the configured analyzer names, all
\* values being 0 until the first success is recorded, and the body of
\* every answer of GET /stats has those keys too.
PerAnalyzerKeysComplete ==
  /\ ConfiguredNames(analyzers) = {AnalyzerNames[i] : i \in 1..NumAnalyzers}
  /\ DOMAIN stats.packets_per_analyzer = ConfiguredNames(analyzers)
  /\ DOMAIN stats.messages_per_analyzer = ConfiguredNames(analyzers)
  /\ stats.total_packets_received = 0 =>
       \A n \in ConfiguredNames(analyzers) :
         /\ stats.packets_per_analyzer[n] = 0
         /\ stats.messages_per_analyzer[n] = 0
  /\ view.kind = "stats" =>
       /\ DOMAIN view.stats.packets_per_analyzer = ConfiguredNames(analyzers)
       /\ DOMAIN view.stats.messages_per_analyzer = ConfiguredNames(analyzers)

PerAnalyzerKeysCompleteWitness ==
  /\ view.kind = "stats"
  /\ view.stats.packets_per_analyzer["analyzer-1"] = 1
  /\ view.stats.packets_per_analyzer["analyzer-2"] = 0
  /\ view.stats.messages_per_analyzer["analyzer-2"] = 0
  /\ ~running

\* C20: every health flag is true at the start, and the registry changes
\* only in a step of the health monitor's probe round, which writes one
\* analyzer's flag with that analyzer's probe result under the free lock
\* and changes nothing of the workers, the queue, the statistics or the
\* answers; names and weights never change.
FlagsInitiallyTrue == \A i \in 1..Len(analyzers) : analyzers[i].is_healthy

FlagsChangedByProbeOnly ==
  /\ Len(analyzers') = Len(analyzers)
  /\ \A i \in 1..Len(analyzers) :
       /\ analyzers'[i].name = analyzers[i].name
       /\ analyzers'[i].weight = analyzers[i].weight
  /\ analyzers' # analyzers =>
       /\ monitor.pc = "apply"
       /\ monitor' # monitor
       /\ lock = Unlocked
       /\ analyzers' = [analyzers EXCEPT ![monitor.idx].is_healthy =
                                            monitor.results[monitor.idx]]
       /\ UNCHANGED <<worker, stats, packet_queue, lock, view, reads, ingested,
                      accepted, last_response, returned, posts_issued, posts_to,
                      running>>

HealthFlagsFrame == FlagsInitiallyTrue /\ [][FlagsChangedByProbeOnly]_vars

HealthFlagsFrameWitness ==
  /\ ~analyzers[1].is_healthy
  /\ analyzers[2].is_healthy
  /\ view.kind = "health"
  /\ posts_to["analyzer-2"] = 2
  /\ \E w \in Workers :
       /\ worker[w].pc = "returned"
       /\ worker[w].last = "transient"
       /\ worker[w].analyzer = "analyzer-2"

\* C21: while shutdown has not been signalled no worker has left its loop,
\* whatever the outcomes of the packets it processed: a worker that holds a
\* packet can always take its next step once the lock is free, each outcome
\* of an attempt (any status, a timeout, a transport error, an unexpected
\* exception, no analyzer available) leads on to the next statement of
\* distribute, and after the return the worker is back at the queue's get,
\* where it takes the next packet as soon as there is one.
WorkerStep(w) ==
  \/ Take(w)
  \/ SelectEnter(w)
  \/ \E r \in DrawsFor(worker[w].healthy_analyzers) : SelectDraw(w, r)
  \/ \E o \in SendOutcomes : \E p \in BOOLEAN : Response(w, o, p)
  \/ Wake(w)
  \/ RecordSuccess(w)
  \/ RecordFailure(w)
  \/ TaskDone(w)

WorkersInLoop ==
  running =>
    \A w \in Workers :
      /\ worker[w].pc \in {"take", "select", "draw", "post", "sleep",
                           "record_success", "record_failure", "returned"}
      /\ (lock \in {Unlocked, w} /\ (worker[w].pc = "take" => packet_queue # <<>>))
           => ENABLED WorkerStep(w)

WorkerGoesOn ==
  \A w \in Workers :
    /\ worker'[w].pc = "stopped" => ~running'
    /\ (running' /\ worker'[w] # worker[w]) =>
         CASE worker[w].pc = "take" ->
                worker'[w].pc = "select" /\ worker'[w].packet = Head(packet_queue)
           [] worker[w].pc = "select" -> worker'[w].pc = "draw"
           [] worker[w].pc = "draw" -> worker'[w].pc \in {"post", "record_failure"}
           [] worker[w].pc = "post" ->
                worker'[w].pc \in {"record_success", "record_failure", "sleep"}
           [] worker[w].pc = "sleep" -> worker'[w].pc = "select"
           [] worker[w].pc \in {"record_success", "record_failure"} ->
                worker'[w].pc = "returned"
           [] worker[w].pc = "returned" ->
                worker'[w].pc = "take" /\ worker'[w].packet = NoPacket
           [] OTHER -> FALSE

WorkersNeverTerminate ==
  /\ WorkersInLoop
  /\ ~ENABLED <<ServiceStep /\ ~WorkerGoesOn>>_vars

WorkersNeverTerminateWitness ==
  \E w \in Workers :
    /\ running
    /\ worker[w].pc = "post"
    /\ worker[w].packet.packet_id = 2
    /\ returned = 1
    /\ stats.failed_sends = 1
    /\ \E i \in 1..Len(analyzers) : ~analyzers[i].is_healthy

\* C22: in a probe round every configured analyzer gets one classification,
\* that of its own probe whatever the probes of the others ended in, and
\* the round writes the flags one analyzer after the other, each once, in
\* the registry's order; a round given up on an error leaves the remaining
\* flags as they were and is followed by the sleep and another round; the
\* loop ends only when the monitor is stopped at shutdown.
OwnClassification(outcome) == outcome = "200"

RoundInvariant ==
  /\ monitor.pc = "apply" =>
       /\ DOMAIN monitor.results = 1..Len(analyzers)
       /\ DOMAIN probed = 1..Len(analyzers)
       /\ monitor.idx \in 1..Len(analyzers)
       /\ \A i \in 1..Len(analyzers) :
            monitor.results[i] = OwnClassification(probed[i])
       /\ \A i \in 1..(monitor.idx - 1) :
            analyzers[i].is_healthy = OwnClassification(probed[i])
  /\ monitor.pc = "check" => ENABLED (\E o \in [1..Len(analyzers) -> ProbeOutcomes] : CheckAllRecorded(o))
  /\ monitor.pc = "sleep" => ENABLED MonitorWake
  /\ monitor.pc = "stopped" => ~running
  /\ monitor.pc \in {"check", "apply", "sleep", "stopped"}

RoundStep ==
  monitor' # monitor =>
    \/ monitor'.pc = "stopped" /\ ~running /\ analyzers' = analyzers
    \/ /\ monitor.pc = "check"
       /\ monitor'.pc = "apply"
       /\ monitor'.idx = 1
       /\ analyzers' = analyzers
    \/ /\ monitor.pc = "apply"
       /\ analyzers' = [analyzers EXCEPT ![monitor.idx].is_healthy =
                                            OwnClassification(probed[monitor.idx])]
       /\ IF monitor.idx < Len(analyzers)
          THEN /\ monitor'.pc = "apply"
               /\ monitor'.idx = monitor.idx + 1
               /\ monitor'.results = monitor.results
          ELSE monitor'.pc = "sleep"
    \/ /\ monitor.pc \in {"check", "apply"}
       /\ monitor'.pc = "sleep"
       /\ analyzers' = analyzers
    \/ /\ monitor.pc = "sleep"
       /\ monitor'.pc = "check"
       /\ analyzers' = analyzers

ProbeRoundResilient == [](RoundInvariant) /\ [][RoundStep]_vars

ProbeRoundResilientWitness ==
  /\ monitor.pc = "sleep"
  /\ probed = <<"raised", "500">>
  /\ ~analyzers[1].is_healthy
  /\ analyzers[2].is_healthy
  /\ running

\* C23: every POST follows a selector call of its own: the target of an
\* attempt is what the reference selector gives for the health flags of the
\* moment of that call and some draw, it is flagged healthy at that moment,
\* so that an analyzer marked unhealthy since the attempt before is not
\* targeted again; whatever the target of the attempt before, every healthy
\* analyzer of positive weight can be the target of the next.
FreshSelectionInvariant ==
  \A w \in Workers :
    worker[w].pc = "draw" =>
      /\ worker[w].healthy_analyzers = SelectSeq(analyzers, LAMBDA a : a.is_healthy)
      /\ \A i \in 1..Len(analyzers) :
           (analyzers[i].is_healthy /\ analyzers[i].weight > 0) =>
             ENABLED (\E r \in 0..MaxWeight * NumAnalyzers :
                        /\ SelectDraw(w, r)
                        /\ worker'[w].analyzer = analyzers[i].name)

FreshSelectionStep ==
  \A w \in Workers :
    /\ (worker'[w].pc = "post" /\ worker'[w] # worker[w]) =>
         /\ worker[w].pc = "draw"
         /\ FlaggedHealthy(worker'[w].analyzer)
         /\ \E r \in 0..MaxWeight * NumAnalyzers :
              worker'[w].analyzer = RefSelect(analyzers, r)
         /\ worker'[w].posts = worker[w].posts + 1
    /\ (worker[w].pc = "sleep" /\ worker'[w] # worker[w]) =>
         /\ worker'[w].pc = "select"
         /\ worker'[w].attempt = worker[w].attempt + 1
         /\ worker'[w].posts = worker[w].posts

FreshSelectionPerAttempt ==
  /\ FreshSelectionInvariant
  /\ ~ENABLED <<Next /\ ~FreshSelectionStep>>_vars

FreshSelectionPerAttemptWitness ==
  \E w \in Workers :
    /\ worker[w].pc = "post"
    /\ worker[w].attempt = 1
    /\ worker[w].analyzer = "analyzer-2"
    /\ posts_to["analyzer-1"] = 1
    /\ posts_to["analyzer-2"] = 1
    /\ ~analyzers[1].is_healthy
    /\ returned = 0

\* C24: the sleep after the retry-eligible failure of attempt k, k below
\* MAX_RETRIES, lasts RETRY_DELAY * 2^k (1, 2, 4 units), and no other step
\* sleeps: a worker in attempt k has slept 2^k - 1 units for its packet, one
\* whose attempt k has just failed and is to be retried 2^(k+1) - 1, and a
\* packet that used up all its attempts has slept 2^MAX_RETRIES - 1 when
\* distribute returns; nothing is slept after the last attempt, a success,
\* a 4xx or a selection that found no analyzer.
TwoTo == <<1, 2, 4, 8, 16>>

SleptSoFar(k) == TwoTo[k + 1] - 1

BackoffInvariant ==
  \A w \in Workers :
    /\ worker[w].pc \in {"take", "stopped"} => worker[w].slept = 0
    /\ worker[w].pc \in {"select", "draw", "post", "record_success",
                         "record_failure", "returned"} =>
         worker[w].slept = SleptSoFar(worker[w].attempt)
    /\ worker[w].pc = "sleep" =>
         /\ worker[w].attempt < MAX_RETRIES
         /\ worker[w].last = "transient"
         /\ worker[w].slept = SleptSoFar(worker[w].attempt + 1)
    /\ (worker[w].pc = "returned" /\ worker[w].last = "transient") =>
         /\ worker[w].attempt = MAX_RETRIES
         /\ worker[w].slept = TwoTo[MAX_RETRIES + 1] - 1

BackoffStep ==
  \A w \in Workers :
    worker'[w] # worker[w] =>
      IF worker[w].pc = "post" /\ worker'[w].pc = "sleep"
      THEN /\ worker'[w].slept - worker[w].slept = TwoTo[worker[w].attempt + 1]
           /\ worker'[w].last = "transient"
           /\ worker[w].attempt < MAX_RETRIES
      ELSE \/ worker'[w].slept = worker[w].slept
           \/ worker'[w].pc \in {"take", "stopped"} /\ worker'[w].slept = 0
           \/ worker[w].pc = "take" /\ worker'[w].slept = 0

ExponentialBackoff ==
  /\ BackoffInvariant
  /\ ~ENABLED <<NextRetryLoop /\ ~BackoffStep>>_vars

ExponentialBackoffWitness ==
  \E w \in Workers :
    /\ MAX_RETRIES = 2
    /\ worker[w].pc = "returned"
    /\ worker[w].last = "transient"
    /\ worker[w].attempt = 2
    /\ worker[w].slept = 3

\* C25: the lock is held only by a worker inside the selector: a worker
\* waiting for the answer to its POST, in its backoff sleep or at the
\* queue's get does not hold it, and the monitor never holds it across a
\* step (not while its probes are out, not while it sleeps); the selection
\* takes the lock and gives it back with its holder's next step, the POST
\* being issued as it is given back; the success update, the failure
\* update, the health update, the read of the statistics and the read of
\* the healthy list each find the lock free and leave it free.
LockInvariant ==
  /\ lock \in {Unlocked} \cup Workers
  /\ \A w \in Workers :
       /\ lock = w => worker[w].pc = "draw"
       /\ worker[w].pc \in {"take", "select", "post", "sleep", "record_success",
                            "record_failure", "returned", "stopped"} => lock # w
  /\ monitor.pc \in {"check", "sleep", "apply", "stopped"}

LockStep ==
  /\ lock' # lock =>
       \/ \E w \in Workers :
            /\ lock = Unlocked
            /\ lock' = w
            /\ worker[w].pc = "select"
            /\ worker'[w].pc = "draw"
            /\ UNCHANGED <<posts_issued, stats, analyzers, view>>
       \/ \E w \in Workers :
            /\ lock = w
            /\ lock' = Unlocked
            /\ worker'[w].pc \in {"post", "record_failure", "stopped"}
  /\ \A w \in Workers :
       (lock = w /\ worker'[w] # worker[w]) => lock' = Unlocked
  /\ \A w \in Workers :
       (worker[w].pc \in {"post", "sleep"} /\ worker'[w] # worker[w]) =>
         lock' = lock /\ lock' # w
  /\ (stats' # stats \/ analyzers' # analyzers \/ view' # view) =>
       lock = Unlocked /\ lock' = Unlocked
  /\ posts_issued' # posts_issued => lock' = Unlocked
  /\ monitor' # monitor => lock' = lock

LockNeverHeldAcrossWait ==
  /\ LockInvariant
  /\ ~ENABLED <<NextService /\ ~LockStep>>_vars

LockNeverHeldAcrossWaitWitness ==
  \E w \in Workers :
    /\ lock = w
    /\ worker[w].pc = "draw"
    /\ worker[w].attempt = 1
    /\ monitor.pc = "apply"
    /\ view.kind = "stats"
    /\ worker[w].posts = 1

\* C26 as stated: the registry and the statistics are built before the
\* queue, the queue before the data-path client is opened, the client before
\* the prober is started, the prober before the workers, the workers before
\* the server answers requests.
Started(pc) == pc # "unstarted"

StartupOrderAsStated ==
  /\ lifespan.queue => lifespan.distributor
  /\ lifespan.client # "none" => lifespan.queue
  /\ Started(monitor.pc) => lifespan.client # "none"
  /\ \A w \in Workers : Started(worker[w].pc) => Started(monitor.pc)
  /\ lifespan.pc = "serving" => \A w \in Workers : Started(worker[w].pc)

\* C26, amended: the queue is built first, then the distributor with the
\* registry and the statistics, then the data-path client is opened, then
\* the health client is opened and the prober started, then running is set
\* and the workers are started, then the server answers requests; no worker
\* runs and no POST is issued before the client is open and the prober
\* started, no probe goes out before the health client is open, and no
\* request is answered before the queue and the workers exist.
StartupOrderInvariant ==
  /\ lifespan.distributor => lifespan.queue
  /\ lifespan.client # "none" => lifespan.distributor
  /\ Started(monitor.pc) =>
       /\ lifespan.client # "none"
       /\ lifespan.health_client # "none"
  /\ \A w \in Workers :
       Started(worker[w].pc) =>
         /\ Started(monitor.pc)
         /\ lifespan.client # "none"
         /\ lifespan.queue
  /\ (running \/ lifespan.pc \in {"serving", "stop_monitor", "close", "done"}) =>
       \A w \in Workers : Started(worker[w].pc)
  /\ (ingested > 0 \/ reads > 0) =>
       /\ lifespan.queue
       /\ \A w \in Workers : Started(worker[w].pc)
       /\ lifespan.pc \in {"serving", "stop_monitor", "close", "done"}
  /\ posts_issued > 0 => lifespan.client # "none" /\ Started(monitor.pc)
  /\ probed # <<>> \/ monitor.pc \in {"apply", "sleep"} => lifespan.health_client # "none"

StartupStep ==
  lifespan'.pc # lifespan.pc =>
    CASE lifespan.pc = "queue" ->
           lifespan'.pc = "distributor" /\ lifespan'.queue /\ ~lifespan.queue
      [] lifespan.pc = "distributor" ->
           lifespan'.pc = "initialize" /\ lifespan'.distributor /\ ~lifespan.distributor
      [] lifespan.pc = "initialize" ->
           lifespan'.pc = "monitor" /\ lifespan'.client = "open"
      [] lifespan.pc = "monitor" ->
           lifespan'.pc = "workers" /\ Started(monitor'.pc) /\ ~Started(monitor.pc)
      [] lifespan.pc = "workers" ->
           /\ lifespan'.pc = "serve"
           /\ running' /\ ~running
           /\ \A w \in Workers : worker'[w].pc = "take" /\ ~Started(worker[w].pc)
      [] lifespan.pc = "serve" -> lifespan'.pc = "serving" /\ ingested = 0
      [] OTHER -> lifespan'.pc \in {"stop_monitor", "close", "done"}

StartupInOrder == [](StartupOrderInvariant) /\ [][StartupStep]_vars

StartupInOrderWitness ==
  /\ lifespan.pc = "serve"
  /\ monitor.pc = "sleep"
  /\ \E i \in 1..Len(analyzers) : ~analyzers[i].is_healthy
  /\ \A w \in Workers : worker[w].pc = "take"
  /\ ingested = 0

\* C27: at shutdown no new request is answered, the workers drain the queue
\* before they stop, the prober stops after the workers and the HTTP clients
\* are closed last: once the workers have stopped the queue is empty and no
\* worker was stopped with a packet in its hands, the prober runs for as
\* long as a worker runs, no POST is issued after the data-path client is
\* closed and no probe after the health client is closed.
WorkersStopped == \A w \in Workers : worker[w].pc = "stopped"

ShutdownOrderAsStated ==
  /\ ~Serving => ~ENABLED (\E req \in Requests : ingest_log_packet(req))
  /\ WorkersStopped =>
       /\ packet_queue = <<>>
       /\ returned = accepted
  /\ monitor.pc = "stopped" => WorkersStopped
  /\ lifespan.health_client = "closed" => monitor.pc = "stopped"
  /\ lifespan.client = "closed" =>
       /\ WorkersStopped
       /\ monitor.pc = "stopped"
       /\ lifespan.health_client = "closed"

\* C28: for every name and value, update_analyzer_health called with the
\* value the flag already has (or with a name that is not configured) leaves
\* the whole state unchanged, a call that changes the state changes one flag
\* to the value given and nothing else, so that the same call made again
\* changes nothing: twice in succession is the same as once.
Known(as, name) == \E i \in 1..Len(as) : as[i].name = name

FlagOf(as, name) == (as[CHOOSE i \in 1..Len(as) : as[i].name = name]).is_healthy

SetHealthFixpoint ==
  \A n \in HealthNames : \A h \in BOOLEAN :
    /\ ENABLED update_analyzer_health(n, h)
    /\ (~Known(analyzers, n) \/ FlagOf(analyzers, n) = h) =>
         ~ENABLED <<update_analyzer_health(n, h)>>_vars
    /\ ~ENABLED (/\ update_analyzer_health(n, h)
                 /\ Known(analyzers', n)
                 /\ FlagOf(analyzers', n) # h)

SetHealthStep ==
  analyzers' # analyzers =>
    \E i \in 1..Len(analyzers) :
      /\ analyzers' = [analyzers EXCEPT ![i].is_healthy = ~analyzers[i].is_healthy]
      /\ UNCHANGED <<stats, lock, packet_queue, worker, monitor, view, running>>

SetHealthIdempotent == [](SetHealthFixpoint) /\ [][SetHealthStep]_vars

SetHealthIdempotentWitness ==
  /\ ~analyzers[1].is_healthy
  /\ analyzers[2].is_healthy
  /\ ~analyzers[3].is_healthy
  /\ analyzers[1].weight = 0
  /\ analyzers[3].weight = MaxWeight

\* C29: the answer of a stats read is the ledger as it was at the read: its
\* total is the sum of its per-analyzer counts, for packets and for
\* messages; what the holder of the answer sees in it stays the same through
\* every later step (success and failure updates included), no part of it
\* being shared with the ledger; and the read changes neither the ledger
\* nor the registry nor anything of the workers.
ViewSeen ==
  [total_packets_received |-> view.stats.total_packets_received,
   total_messages_received |-> view.stats.total_messages_received,
   failed_sends |-> view.stats.failed_sends,
   packets_per_analyzer |->
     IF "packets_per_analyzer" \in view.shares THEN stats.packets_per_analyzer
     ELSE view.stats.packets_per_analyzer,
   messages_per_analyzer |->
     IF "messages_per_analyzer" \in view.shares THEN stats.messages_per_analyzer
     ELSE view.stats.messages_per_analyzer]

ViewConsistent ==
  view.kind = "stats" =>
    /\ ViewSeen.total_packets_received =
         SumOver(ViewSeen.packets_per_analyzer, DOMAIN ViewSeen.packets_per_analyzer)
    /\ ViewSeen.total_messages_received =
         SumOver(ViewSeen.messages_per_analyzer, DOMAIN ViewSeen.messages_per_analyzer)
    /\ ViewSeen.total_packets_received <= stats.total_packets_received
    /\ ViewSeen.failed_sends <= stats.failed_sends

StatsReadStep ==
  /\ (reads' # reads /\ view'.kind = "stats") =>
       /\ ViewSeen' = stats
       /\ UNCHANGED <<stats, analyzers, lock, worker, monitor, packet_queue,
                      returned, posts_issued, posts_to, running>>
       /\ lock = Unlocked
  /\ (reads' = reads /\ view.kind = "stats") =>
       /\ view'.kind = "stats"
       /\ ViewSeen' = ViewSeen

StatsReadIsSnapshot ==
  /\ ViewConsistent
  /\ ~ENABLED <<NextService /\ ~StatsReadStep>>_vars

StatsReadIsSnapshotWitness ==
  /\ view.kind = "stats"
  /\ view.stats.total_packets_received = 0
  /\ view.stats.failed_sends = 0
  /\ view.stats.packets_per_analyzer["analyzer-2"] = 0
  /\ stats.total_packets_received = 1
  /\ stats.packets_per_analyzer["analyzer-2"] = 1
  /\ running

\* C30: packets leave the queue in the order in which they were accepted,
\* whichever worker takes them: the queue holds the packets in the order of
\* their acceptance, every packet a worker holds was accepted before every
\* packet still in the queue, a take hands the worker the packet accepted
\* first and leaves the others in their order, and an accepted packet goes
\* to the end of the queue.  The order of completion is not fixed by this.
QueueInOrder ==
  /\ \A i \in 1..Len(packet_queue) : \A j \in 1..Len(packet_queue) :
       i < j => packet_queue[i].packet_id < packet_queue[j].packet_id
  /\ \A i \in 1..Len(packet_queue) :
       /\ packet_queue[i].packet_id \in 1..ingested
       /\ \A w \in DOMAIN worker :
            worker[w].packet.packet_id < packet_queue[i].packet_id
  /\ \A w \in DOMAIN worker : \A v \in DOMAIN worker :
       (w # v /\ worker[w].pc # "take") =>
         worker[w].packet.packet_id # worker[v].packet.packet_id

TakenInOrder ==
  /\ Len(packet_queue') < Len(packet_queue) =>
       \E w \in DOMAIN worker :
         /\ worker[w].pc = "take"
         /\ worker'[w].pc = "select"
         /\ \A v \in DOMAIN worker : v # w => worker'[v] = worker[v]
         /\ worker'[w].packet = packet_queue[1]
         /\ \A i \in 1..Len(packet_queue') :
              /\ packet_queue'[i] = packet_queue[i + 1]
              /\ worker'[w].packet.packet_id < packet_queue'[i].packet_id
  /\ Len(packet_queue') > Len(packet_queue) =>
       /\ Len(packet_queue') = Len(packet_queue) + 1
       /\ \A i \in 1..Len(packet_queue) : packet_queue'[i] = packet_queue[i]
       /\ packet_queue'[Len(packet_queue')].packet_id = ingested'
       /\ ingested' = ingested + 1
       /\ worker' = worker
  /\ Len(packet_queue') = Len(packet_queue) => packet_queue' = packet_queue

QueueIsFifo == [](QueueInOrder) /\ [][TakenInOrder]_vars

QueueIsFifoWitness ==
  \E w \in DOMAIN worker : \E v \in DOMAIN worker :
    /\ worker[w].packet.packet_id = 1
    /\ worker[w].pc = "post"
    /\ worker[v].packet.packet_id = 2
    /\ worker[v].pc = "returned"
    /\ returned = 1

\* C31: whatever the outcomes of its attempts, the number of POSTs issued
\* for the packet a worker holds lies between 0 and MAX_RETRIES + 1 and is
\* at most one more than the number of the attempt; a POST is issued only by
\* a worker that comes out of the selector with an analyzer, one at a time;
\* and once the outcome of the packet is decided (the success or the failed
\* send about to be recorded, or recorded) no POST is issued for it.
PostsBounded ==
  \A w \in Workers :
    /\ worker[w].posts \in 0..(MAX_RETRIES + 1)
    /\ worker[w].attempt \in 0..MAX_RETRIES
    /\ worker[w].posts <= worker[w].attempt + 1
    /\ worker[w].pc \in {"post", "sleep", "record_success"} =>
         worker[w].posts = worker[w].attempt + 1
    /\ worker[w].pc \in {"select", "draw"} => worker[w].posts = worker[w].attempt
    /\ worker[w].pc = "take" => worker[w].posts = 0

PostsStep ==
  /\ posts_issued' - posts_issued \in {0, 1}
  /\ posts_issued' # posts_issued =>
       \E w \in Workers :
         /\ worker[w].pc = "draw"
         /\ worker'[w].pc = "post"
         /\ worker'[w].packet = worker[w].packet
         /\ worker'[w].posts = worker[w].posts + 1
         /\ worker'[w].analyzer \in ConfiguredNames(analyzers)
  /\ \A w \in Workers :
       /\ worker[w].pc \in {"record_success", "record_failure", "returned"} =>
            /\ worker'[w].pc # "post"
            /\ worker'[w].pc \in {worker[w].pc, "returned", "take"}
            /\ worker'[w].posts \in {worker[w].posts, 0}
       /\ (worker'[w].posts # worker[w].posts /\ worker'[w].posts # 0) =>
            posts_issued' = posts_issued + 1

PostsPerPacketBounded ==
  /\ PostsBounded
  /\ ~ENABLED <<NextRetryLoop /\ ~PostsStep>>_vars

PostsPerPacketBoundedWitness ==
  \E w \in Workers :
    /\ MAX_RETRIES = 2
    /\ worker[w].pc = "returned"
    /\ worker[w].last = "4xx"
    /\ worker[w].posts = 2
    /\ worker[w].attempt = 1
    /\ stats.failed_sends = 1

\* C32: the step that records a failed distribution (no analyzer available,
\* a 4xx, or the attempts used up) adds one to failed_sends and changes no
\* other field of the statistics; the end of an attempt, whatever its
\* outcome and whether or not another attempt follows, changes no counter;
\* and the step that records a success leaves failed_sends as it is.
FailureFrame ==
  /\ stats'.failed_sends # stats.failed_sends =>
       /\ stats'.failed_sends = stats.failed_sends + 1
       /\ stats'.total_packets_received = stats.total_packets_received
       /\ stats'.total_messages_received = stats.total_messages_received
       /\ stats'.packets_per_analyzer = stats.packets_per_analyzer
       /\ stats'.messages_per_analyzer = stats.messages_per_analyzer
       /\ \E w \in Workers :
            /\ worker[w].pc = "record_failure"
            /\ worker'[w].pc = "returned"
            /\ ~worker'[w].success
            /\ \/ worker[w].last = "no_analyzer"
               \/ worker[w].last = "4xx"
               \/ worker[w].last = "transient" /\ worker[w].attempt = MAX_RETRIES
  /\ \A w \in Workers :
       /\ (worker[w].pc \in {"post", "sleep", "select", "draw"} /\ worker'[w] # worker[w]) =>
            stats' = stats
       /\ (worker[w].pc = "record_failure" /\ worker'[w] # worker[w]) =>
            stats'.failed_sends = stats.failed_sends + 1
  /\ stats'.total_packets_received # stats.total_packets_received =>
       /\ stats'.failed_sends = stats.failed_sends
       /\ \E w \in Workers : worker[w].pc = "record_success" /\ worker'[w].success

FailureChangesOnlyFailedSends ==
  ~ENABLED <<Next /\ ~FailureFrame>>_vars

FailureChangesOnlyFailedSendsWitness ==
  \E w \in Workers :
    /\ worker[w].pc = "returned"
    /\ worker[w].last = "transient"
    /\ worker[w].attempt = 1
    /\ stats.failed_sends = 1
    /\ stats.total_packets_received = 1
    /\ stats.packets_per_analyzer["analyzer-2"] = 1

\* C33: once shutdown is signalled every worker has stopped, wherever it
\* was (at the queue's get, in the selector, waiting for a response, in a
\* backoff sleep), and takes no further step; the prober is stopped next,
\* wherever it was in its round, and the shutdown sequence completes; after
\* that no worker and no prober runs, no lock is held and nothing changes
\* any more.
AfterSignal == lifespan.pc \in {"stop_monitor", "close", "done"}

ShutdownClean ==
  /\ AfterSignal =>
       /\ ~running
       /\ WorkersStopped
       /\ lock = Unlocked
  /\ lifespan.pc \in {"close", "done"} => monitor.pc = "stopped"
  /\ lifespan.pc = "stop_monitor" => ENABLED StopMonitor
  /\ lifespan.pc = "close" => ENABLED CloseDistributor
  /\ lifespan.pc = "done" =>
       /\ lifespan.client = "closed"
       /\ lifespan.health_client = "closed"

ShutdownStep ==
  /\ AfterSignal =>
       /\ worker' = worker
       /\ UNCHANGED <<stats, packet_queue, posts_issued, ingested, running>>
  /\ lifespan.pc \in {"close", "done"} => UNCHANGED <<monitor, analyzers>>
  /\ lifespan.pc = "done" => UNCHANGED vars

ShutdownCompletes == AfterSignal ~> (lifespan.pc = "done")

ShutdownTerminates ==
  /\ [](ShutdownClean)
  /\ [][ShutdownStep]_vars
  /\ ShutdownCompletes

ShutdownTerminatesWitness ==
  /\ lifespan.pc = "done"
  /\ monitor.pc = "stopped"
  /\ WorkersStopped
  /\ posts_issued = 2
  /\ returned = 0
  /\ accepted = 1
  /\ ~analyzers[1].is_healthy
  /\ analyzers[2].is_healthy

\* C34: the packets accepted by ingress and not yet at a terminal outcome
\* are the queued ones and the one in each busy worker's hands, so there
\* are never more than MAX_QUEUE_SIZE + NUM_WORKERS of them; while no packet
\* has completed, no more than that many requests of a burst are accepted,
\* and a valid request that arrives when that many are in the system is
\* answered 503 and accepted nowhere.
InTheSystem == accepted - returned

InHands == {w \in Workers : worker[w].pc \notin {"take", "returned"}}

BackpressureInvariant ==
  /\ InTheSystem = Len(packet_queue) + Cardinality(InHands)
  /\ Len(packet_queue) <= MAX_QUEUE_SIZE
  /\ InTheSystem <= MAX_QUEUE_SIZE + Cardinality(Workers)
  /\ returned = 0 => accepted <= MAX_QUEUE_SIZE + Cardinality(Workers)

BackpressureStep ==
  (/\ ingested' # ingested
   /\ InTheSystem = MAX_QUEUE_SIZE + Cardinality(Workers))
  => /\ last_response' \in {"503", "422"}
     /\ UNCHANGED <<accepted, packet_queue, worker>>

BackpressureBoundsWork == [](BackpressureInvariant) /\ [][BackpressureStep]_vars

BackpressureBoundsWorkWitness ==
  /\ MAX_QUEUE_SIZE = 1
  /\ ingested = 3
  /\ accepted = 2
  /\ returned = 0
  /\ last_response = "503"
  /\ Len(packet_queue) = 1
  /\ Cardinality(InHands) = 1

\* C35: while analyzer a is flagged unhealthy no POST to a is issued, and
\* each increase of packets_per_analyzer[a] is by one and settles one POST
\* to a that was outstanding; so over an interval in which a stays flagged
\* unhealthy packets_per_analyzer[a] grows by no more than the POSTs to a
\* outstanding when a was marked, which are at most one per worker; every
\* POST to a, and so every success recorded for a, comes from a selection
\* made while a was flagged healthy.
StragglerInvariant ==
  \A a \in ConfiguredNames(analyzers) : OutstandingTo(a) <= Cardinality(Workers)

StragglerStep ==
  \A a \in ConfiguredNames(analyzers) :
    /\ ~FlaggedHealthy(a) =>
         /\ posts_to'[a] = posts_to[a]
         /\ stats'.packets_per_analyzer[a] + OutstandingTo(a)'
              <= stats.packets_per_analyzer[a] + OutstandingTo(a)
    /\ posts_to'[a] # posts_to[a] =>
         /\ FlaggedHealthy(a)
         /\ OutstandingTo(a)' = OutstandingTo(a) + 1
    /\ stats'.packets_per_analyzer[a] # stats.packets_per_analyzer[a] =>
         /\ stats'.packets_per_analyzer[a] = stats.packets_per_analyzer[a] + 1
         /\ OutstandingTo(a)' = OutstandingTo(a) - 1

StragglersBounded ==
  /\ StragglerInvariant
  /\ ~ENABLED <<Next /\ ~StragglerStep>>_vars

StragglersBoundedWitness ==
  /\ ~FlaggedHealthy("analyzer-1")
  /\ OutstandingTo("analyzer-1") = 1
  /\ \E w \in Workers :
       /\ worker[w].pc = "record_success"
       /\ worker[w].analyzer = "analyzer-1"
       /\ worker[w].packet.packet_id = 2
  /\ stats.packets_per_analyzer["analyzer-1"] = 1
  /\ posts_to["analyzer-1"] = 2
  /\ monitor.pc = "sleep"

\* C36: the selector never returns an analyzer of weight 0, whatever the
\* draw, the upper end of its range included, and wherever the analyzer
\* stands in the configured order.
SelectedWeight ==
  LET i == CHOOSE i \in 1..Len(analyzers) : analyzers[i].name = selected
  IN analyzers[i].weight

ZeroWeightNeverSelected ==
  selected \in ConfiguredNames(analyzers) => SelectedWeight > 0

\* C37: between the applications of two analyzers' results of one probe
\* round no selector call runs: a selection starts, and draws, only while
\* no round is partly applied, and what it filters is the registry as it
\* stands then, so the flags a selection sees never mix two rounds.
PartlyApplied == monitor.pc = "apply" /\ monitor.idx > 1

RoundUnitInvariant ==
  \A w \in Workers :
    worker[w].pc = "draw" =>
      /\ ~PartlyApplied
      /\ lock = w
      /\ worker[w].healthy_analyzers = HealthyAnalyzers(analyzers)

RoundUnitStep ==
  /\ (\E w \in Workers : worker'[w].pc # worker[w].pc) => ~PartlyApplied
  /\ PartlyApplied => UNCHANGED <<worker, lock, stats, selected, rand>>

RoundAppliedAsUnit == [](RoundUnitInvariant) /\ [][RoundUnitStep]_vars

RoundAppliedAsUnitWitness ==
  /\ PartlyApplied
  /\ monitor.results = <<FALSE, FALSE>>
  /\ ~analyzers[1].is_healthy
  /\ analyzers[2].is_healthy
  /\ \E w \in Workers : worker[w].pc = "select" /\ worker[w].attempt = 1

\* C38: the lock is held only by a worker inside the selector, which can
\* always leave it, so no state has the lock taken with nobody able to
\* release it, and whenever the lock is free each waiting task's step is
\* enabled; the lock is always released again, and a worker waiting to
\* select, a worker waiting to record an outcome and the prober waiting to
\* apply a result all get the lock.
LockWaiters ==
  {w \in Workers : worker[w].pc \in {"select", "record_success", "record_failure"}}

LockNoDeadlock ==
  /\ lock # Unlocked =>
       /\ lock \in Workers
       /\ worker[lock].pc = "draw"
       /\ ENABLED (\E r \in DrawsFor(worker[lock].healthy_analyzers) : SelectDraw(lock, r))
  /\ lock = Unlocked =>
       /\ \A w \in Workers :
            /\ worker[w].pc = "select" => ENABLED SelectEnter(w)
            /\ worker[w].pc = "record_success" => ENABLED RecordSuccess(w)
            /\ worker[w].pc = "record_failure" => ENABLED RecordFailure(w)
       /\ monitor.pc = "apply" => ENABLED ApplyResult
       /\ reads < MaxReads => ENABLED get_stats /\ ENABLED health_check

LockAlwaysReleased == (lock # Unlocked) ~> (lock = Unlocked)

LockWaitersServed == (LockWaiters # {}) ~> (LockWaiters = {})

ProberServed == (monitor.pc = "apply") ~> (monitor.pc = "sleep")

OneLoopInvariant ==
  /\ monitor.loops <= 1
  /\ MonitorRunning(monitor) <=> monitor.loops = 1
  /\ MonitorRunning(monitor) => ~ENABLED <<start>>_vars
  /\ ~MonitorRunning(monitor) =>
       /\ ~ENABLED <<stop>>_vars
       /\ ~ENABLED ApplyResult
       /\ ~ENABLED MonitorWake
       /\ ~ENABLED RoundFails

StoppedStep ==
  /\ ~MonitorRunning(monitor) =>
       /\ analyzers' = analyzers
       /\ probed' = probed
       /\ monitor' = monitor \/ MonitorRunning(monitor')
  /\ monitor'.loops > monitor.loops => ~MonitorRunning(monitor)

StartStopWellBehaved == [](OneLoopInvariant) /\ [][StoppedStep]_vars

StartStopWellBehavedWitness ==
  /\ monitor.pc = "stopped"
  /\ monitor.loops = 0
  /\ monitor.idx = 2
  /\ monitor.results = <<FALSE, FALSE>>
  /\ ~analyzers[1].is_healthy
  /\ analyzers[2].is_healthy
  /\ lifespan.health_client = "closed"

\* C40: the message counters move only in the step that records a success,
\* together with the packet counters: for a packet of m messages sent to
\* analyzer a, total_messages_received and messages_per_analyzer[a] both
\* grow by m; a step that counts a failure leaves them alone; so in every
\* state total_messages_received is the sum of messages_per_analyzer, which
\* is the sum of the message counts of the packets recorded as delivered.
PerAnalyzerMessages ==
  SumOver(stats.messages_per_analyzer, DOMAIN stats.messages_per_analyzer)

MessagesInvariant ==
  /\ DOMAIN stats.messages_per_analyzer = ConfiguredNames(analyzers)
  /\ stats.total_messages_received = PerAnalyzerMessages
  /\ stats.total_packets_received <= stats.total_messages_received
  /\ \A a \in ConfiguredNames(analyzers) :
       stats.packets_per_analyzer[a] <= stats.messages_per_analyzer[a]
  /\ stats.total_packets_received = 0 => stats.total_messages_received = 0

MessagesStep ==
  /\ (\/ stats'.total_messages_received # stats.total_messages_received
      \/ stats'.messages_per_analyzer # stats.messages_per_analyzer
      \/ stats'.total_packets_received # stats.total_packets_received
      \/ stats'.packets_per_analyzer # stats.packets_per_analyzer)
     => \E w \in Workers :
          LET m == worker[w].packet.messages
              a == worker[w].analyzer
          IN /\ worker[w].pc = "record_success"
             /\ worker'[w].pc = "returned"
             /\ m >= 1
             /\ stats'.total_messages_received = stats.total_messages_received + m
             /\ stats'.messages_per_analyzer =
                  [stats.messages_per_analyzer EXCEPT ![a] = @ + m]
             /\ stats'.total_packets_received = stats.total_packets_received + 1
             /\ stats'.packets_per_analyzer =
                  [stats.packets_per_analyzer EXCEPT ![a] = @ + 1]
             /\ stats'.failed_sends = stats.failed_sends
  /\ stats'.failed_sends # stats.failed_sends =>
       /\ stats'.total_messages_received = stats.total_messages_received
       /\ stats'.messages_per_analyzer = stats.messages_per_analyzer

MessagesFollowPackets ==
  /\ MessagesInvariant
  /\ ~ENABLED <<Next /\ ~MessagesStep>>_vars

MessagesFollowPacketsWitness ==
  /\ stats.total_packets_received = 1
  /\ stats.total_messages_received = 2
  /\ stats.messages_per_analyzer["analyzer-2"] = 2
  /\ stats.packets_per_analyzer["analyzer-2"] = 1
  /\ stats.failed_sends = 1
  /\ \E w \in Workers :
       /\ worker[w].pc = "returned"
       /\ ~worker[w].success
       /\ worker[w].packet.messages = 1

====
